---- MODULE Spec2Model ----
(***************************************************************************)
(* Verification model of the PDF question-segmentation pipeline            *)
(* (src/src/main.py, image_stitcher.py, question_detector.py,              *)
(* metadata_extractor.py, output_manager.py).                              *)
(*                                                                         *)
(* The specifications share the variables below:                           *)
(*   Spec         the CLI: main, process_batch, process_single_pdf and the *)
(*                OutputManager, one action per step of the code;          *)
(*   SpecLabelled process_single_pdf on two-page PDFs with labelled        *)
(*                regions;                                                 *)
(*   SpecTall     process_single_pdf on tall one-page PDFs;                *)
(*   SpecPos      calculate_original_position on bounded inputs;           *)
(*   SpecNum      extract_question_number_from_top_left on bounded         *)
(*                recognition outcomes;                                    *)
(*   SpecGap      detect_horizontal_gaps and find_question_boundaries on   *)
(*                bounded images;                                          *)
(*   SpecTrim     trim_whitespace on bounded images;                       *)
(*   SpecCfg      load_config on bounded user files.                       *)
(*   SpecStitch   process_pages_to_single_image on bounded pages.          *)
(*   SpecSplit    split_columns on bounded pages and gap ratios.           *)
(*                                                                         *)
(* Python's Optional[int] is modelled as a sequence of length 0 or 1:      *)
(* None is <<>> and the integer n is <<n>>.  A text is a sequence of       *)
(* one-character strings.  An image is described by what the code reads    *)
(* of it: its width and, for every pixel row, the set of x positions whose *)
(* grey value is below whitespace_threshold ("dark" pixels).               *)
(***************************************************************************)
EXTENDS Integers, Sequences, FiniteSets, TLC

VARIABLES
    \* ---- the CLI process (main.py: main, process_batch) ----
    mpc,            \* position of main
    args,           \* parsed command line and what the path points to
    config,         \* load_config result, <<>> before it is loaded
    exit_code,      \* process exit status, <<>> while running
    run,            \* which invocation of the CLI on this input (1 or 2)
    now,            \* wall clock read by datetime.now()
    pdf_files,      \* process_batch: number of PDFs found by glob
    file_idx,       \* process_batch: index of the file in progress
    attempted,      \* process_batch: calls of process_single_pdf so far
    results,        \* process_batch: the result list
    \* ---- one call of process_single_pdf ----
    ppc,            \* position inside process_single_pdf
    pdf,            \* the bytes of the file: its page rasters
    recog,          \* recognition outcome of each region of this file
    pages,          \* convert_pdf_to_images result
    stitched_image, \* process_pages_to_single_image result
    detected_questions, \* detect_questions result
    ridx,           \* loop index over detected_questions (1-based)
    question_number,\* extract_question_number_from_top_left result
    skipped_count,
    \* ---- OutputManager and the output directory ----
    questions,      \* OutputManager.questions
    images,         \* image files written by this run, in order
    manifest,       \* content of metadata.json on disk, <<>> if absent
    manifest_writes,\* writes of metadata.json by this run
    first_manifest, \* metadata.json as the previous run on the same bytes left it
    \* ---- a single call of a pure function (SpecPos, SpecNum) ----
    fcall,          \* the arguments
    fret            \* the result, <<>> before the call

cliVars  == <<mpc, args, config, exit_code, run, now, pdf_files, file_idx, attempted, results>>
fileVars == <<ppc, pdf, recog, pages, stitched_image, detected_questions, ridx,
              question_number, skipped_count>>
outVars  == <<questions, images, manifest, manifest_writes, first_manifest>>
fnVars   == <<fcall, fret>>
vars     == <<cliVars, fileVars, outVars, fnVars>>

----------------------------------------------------------------------------
(* Bounds of the model *)

MaxFiles == 2
MaxClock == 1
MaxTextLen == 4
MaxPosPages == 3
MaxPosHeight == 3

None == <<>>
Some(v) == <<v>>

RECURSIVE SumSeq(_)
SumSeq(s) == IF s = <<>> THEN 0 ELSE Head(s) + SumSeq(Tail(s))

\* all sequences over S of length lo..hi
SeqsOf(S, lo, hi) == UNION {[1..n -> S] : n \in lo..hi}

----------------------------------------------------------------------------
(* image_stitcher.py: calculate_original_position *)

\* the dict appended for the left column of a page
LeftColumn(current_y, height, page_idx) ==
    [start |-> current_y, end |-> current_y + height,
     page |-> page_idx + 1, column |-> "left"]

\* a right column that starts where the left one started
RightColumnNoAdvance(current_y, height, page_idx) ==
    [start |-> current_y - height, end |-> current_y,
     page |-> page_idx + 1, column |-> "right"]

\* the dict appended for the right column of a page (current_y already
\* advanced past the left column)
RightColumn(current_y, height, page_idx) ==
    [start |-> current_y, end |-> current_y + height,
     page |-> page_idx + 1, column |-> "right"]

\* the loop "for page_idx in range(num_pages)"
RECURSIVE ColumnStartsLoop(_, _, _, _, _)
ColumnStartsLoop(page_idx, current_y, column_starts, page_heights, num_pages) ==
    IF page_idx >= num_pages THEN column_starts
    ELSE LET height == IF page_idx < Len(page_heights)
                       THEN page_heights[page_idx + 1]
                       ELSE page_heights[Len(page_heights)]
             left   == LeftColumn(current_y, height, page_idx)
             right  == RightColumn(current_y + height, height, page_idx)
         IN  ColumnStartsLoop(page_idx + 1, current_y + height + height,
                              column_starts \o <<left, right>>,
                              page_heights, num_pages)

ColumnStarts(page_heights, num_pages) ==
    ColumnStartsLoop(0, 0, <<>>, page_heights, num_pages)

\* the test of the search loop with the upper end included
ContainsYClosed(col_info, y_in_stitched) ==
    col_info.start <= y_in_stitched /\ y_in_stitched <= col_info.end

\* the test of the search loop: start <= y < end
ContainsY(col_info, y_in_stitched) ==
    col_info.start <= y_in_stitched /\ y_in_stitched < col_info.end

\* a dict that names the first page whatever the column
PositionInFirstPage(col_info, y_in_stitched) ==
    [page |-> 1, column |-> col_info.column,
     y_in_column |-> y_in_stitched - col_info.start]

\* the dict returned for a column
PositionIn(col_info, y_in_stitched) ==
    [page |-> col_info.page, column |-> col_info.column,
     y_in_column |-> y_in_stitched - col_info.start]

\* the search with a fallback that clamps y to the last row of the last column
RECURSIVE FindColumnClamped(_, _, _)
FindColumnClamped(i, column_starts, y_in_stitched) ==
    IF i > Len(column_starts)
    THEN PositionIn(column_starts[Len(column_starts)],
                    column_starts[Len(column_starts)].end - 1)
    ELSE IF ContainsY(column_starts[i], y_in_stitched)
         THEN PositionIn(column_starts[i], y_in_stitched)
         ELSE FindColumnClamped(i + 1, column_starts, y_in_stitched)

\* the loop "for col_info in column_starts" and the fallback after it
RECURSIVE FindColumn(_, _, _)
FindColumn(i, column_starts, y_in_stitched) ==
    IF i > Len(column_starts)
    THEN PositionIn(column_starts[Len(column_starts)], y_in_stitched)
    ELSE IF ContainsY(column_starts[i], y_in_stitched)
         THEN PositionIn(column_starts[i], y_in_stitched)
         ELSE FindColumn(i + 1, column_starts, y_in_stitched)

calculate_original_position(y_in_stitched, page_heights, num_pages) ==
    FindColumn(1, ColumnStarts(page_heights, num_pages), y_in_stitched)

----------------------------------------------------------------------------
(* metadata_extractor.py: extract_question_number_from_top_left *)

Digits == {"0", "1", "2", "3", "4", "5", "6", "7", "8", "9"}
Whitespace == {" ", "\n"}

DigitValue(c) ==
    CASE c = "0" -> 0 [] c = "1" -> 1 [] c = "2" -> 2 [] c = "3" -> 3
      [] c = "4" -> 4 [] c = "5" -> 5 [] c = "6" -> 6 [] c = "7" -> 7
      [] c = "8" -> 8 [] c = "9" -> 9

\* str.strip(): drop leading and trailing whitespace
RECURSIVE LStrip(_)
LStrip(text) ==
    IF text # <<>> /\ Head(text) \in Whitespace THEN LStrip(Tail(text)) ELSE text

RECURSIVE RStrip(_)
RStrip(text) ==
    IF text # <<>> /\ text[Len(text)] \in Whitespace
    THEN RStrip(SubSeq(text, 1, Len(text) - 1)) ELSE text

Strip(text) == RStrip(LStrip(text))

\* index of the first digit of text at or after i, 0 if there is none
RECURSIVE FirstDigitFrom(_, _)
FirstDigitFrom(text, i) ==
    IF i > Len(text) THEN 0
    ELSE IF text[i] \in Digits THEN i ELSE FirstDigitFrom(text, i + 1)

\* number of consecutive digits of text starting at i, at most limit
RECURSIVE DigitsAt(_, _, _)
DigitsAt(text, i, limit) ==
    IF limit = 0 \/ i > Len(text) \/ text[i] \notin Digits THEN 0
    ELSE 1 + DigitsAt(text, i + 1, limit - 1)

\* re.search(r'(\d{1,3})', text): the leftmost match, greedy, of one to three
\* digits; group(1) as Some(digits), or None when nothing matches
ReSearchDigits(text) ==
    LET i == FirstDigitFrom(text, 1)
    IN  IF i = 0 THEN None
        ELSE Some(SubSeq(text, i, i + DigitsAt(text, i, 3) - 1))

\* int() of a string of decimal digits
RECURSIVE ParseInt(_)
ParseInt(digits) ==
    IF digits = <<>> THEN 0
    ELSE 10 * ParseInt(SubSeq(digits, 1, Len(digits) - 1))
         + DigitValue(digits[Len(digits)])

\* a range test that lets 0 through
InRangeFromZero(num) == 0 <= num /\ num <= 999

\* the range test "1 <= num <= 999"
InRange(num) == 1 <= num /\ num <= 999

\* lines 86-100: strip, search, parse, range check
ValidateNumber(recognized) ==
    LET text  == Strip(recognized)
        match == ReSearchDigits(text)
    IN  IF match # None
        THEN LET num == ParseInt(match[1])
             IN  IF InRange(num) THEN Some(num) ELSE None
        ELSE None

\* lines 73-84: the digit-constrained recognition call, then the unconstrained
\* one if the first raised.  ocr.first and ocr.second are what each call does
\* when it is made: [raised |-> TRUE] or [raised |-> FALSE, text |-> t].
\* The result is the text (None when both raised) and the calls made.
\* a fallback that is also taken when the first call returns no text
RecognizeTextRetryEmpty(ocr) ==
    IF ~ocr.first.raised /\ ocr.first.text # <<>>
    THEN [text |-> Some(ocr.first.text), calls |-> <<"digits">>]
    ELSE IF ~ocr.second.raised
         THEN [text |-> Some(ocr.second.text), calls |-> <<"digits", "plain">>]
         ELSE [text |-> None, calls |-> <<"digits", "plain">>]

RecognizeText(ocr) ==
    IF ~ocr.first.raised
    THEN [text |-> Some(ocr.first.text), calls |-> <<"digits">>]
    ELSE IF ~ocr.second.raised
         THEN [text |-> Some(ocr.second.text), calls |-> <<"digits", "plain">>]
         ELSE [text |-> None, calls |-> <<"digits", "plain">>]

extract_question_number_from_top_left(ocr) ==
    LET r == RecognizeText(ocr)
    IN  IF r.text = None THEN None ELSE ValidateNumber(r.text[1])

----------------------------------------------------------------------------
(* Images.  An image is [width |-> w, rows |-> r]: r[k] is the set of x in   *)
(* 0..w-1 at which row k-1 has a pixel darker than whitespace_threshold.     *)

Height(image) == Len(image.rows)

Min(a, b) == IF a <= b THEN a ELSE b
Max(a, b) == IF a >= b THEN a ELSE b
SetMin(S) == CHOOSE x \in S : \A z \in S : x <= z
SetMax(S) == CHOOSE x \in S : \A z \in S : x >= z

\* PIL Image.crop((x0, y0, x1, y1)) for a box inside the image
Crop(image, x0, y0, x1, y1) ==
    [width |-> x1 - x0,
     rows  |-> [k \in 1..(y1 - y0) |->
                  {x - x0 : x \in {z \in image.rows[y0 + k] : x0 <= z /\ z < x1}}]]

----------------------------------------------------------------------------
(* image_stitcher.py: split_columns, stitch_vertically,                      *)
(* process_pages_to_single_image.  gap_ratio is given in percent.            *)

\* the columns with the whole gap cut off each of them, not half of it
split_columns_WholeGap(image, gap_ratio) ==
    LET width      == image.width
        height     == Height(image)
        gap_pixels == (width * gap_ratio) \div 100
        mid        == width \div 2
    IN  <<Crop(image, 0, 0, Max(0, mid - gap_pixels), height),
          Crop(image, Min(width, mid + gap_pixels), 0, width, height)>>

split_columns(image, gap_ratio) ==
    LET width      == image.width
        height     == Height(image)
        gap_pixels == (width * gap_ratio) \div 100
        mid        == width \div 2
    IN  <<Crop(image, 0, 0, mid - gap_pixels \div 2, height),
          Crop(image, mid + gap_pixels \div 2, 0, width, height)>>

\* the paste loop with every image at x_offset = 0
RECURSIVE PasteLoopLeftAligned(_, _, _)
PasteLoopLeftAligned(imgs, max_width, rows) ==
    IF imgs = <<>> THEN rows
    ELSE PasteLoopLeftAligned(Tail(imgs), max_width, rows \o Head(imgs).rows)

\* the (x_offset, y_offset) the paste loop passes to result.paste for each
\* image, y_offset being advanced by the height of the image pasted
RECURSIVE PasteOffsets(_, _, _)
PasteOffsets(imgs, max_width, y_offset) ==
    IF imgs = <<>> THEN <<>>
    ELSE <<[x_offset |-> (max_width - Head(imgs).width) \div 2,
            y_offset |-> y_offset]>>
         \o PasteOffsets(Tail(imgs), max_width, y_offset + Height(Head(imgs)))

\* the paste loop: images[k] goes to y_offset = the heights before it,
\* centred horizontally
RECURSIVE PasteLoop(_, _, _)
PasteLoop(imgs, max_width, rows) ==
    IF imgs = <<>> THEN rows
    ELSE LET img      == Head(imgs)
             x_offset == (max_width - img.width) \div 2
         IN  PasteLoop(Tail(imgs), max_width,
                       rows \o [k \in 1..Height(img) |->
                                  {x + x_offset : x \in img.rows[k]}])

\* defined for a non-empty list (the empty list raises ValueError)
stitch_vertically(imgs) ==
    IF Len(imgs) = 1 THEN imgs[1]
    ELSE LET max_width == SetMax({imgs[k].width : k \in 1..Len(imgs)})
         IN  [width |-> max_width, rows |-> PasteLoop(imgs, max_width, <<>>)]

RECURSIVE AllColumns(_, _)
AllColumns(pgs, gap_ratio) ==
    IF pgs = <<>> THEN <<>>
    ELSE split_columns(Head(pgs), gap_ratio) \o AllColumns(Tail(pgs), gap_ratio)

process_pages_to_single_image(pgs, gap_ratio) ==
    stitch_vertically(AllColumns(pgs, gap_ratio))

----------------------------------------------------------------------------
(* question_detector.py *)

BoundingBox(x, y, width, height) ==
    [x |-> x, y |-> y, width |-> width, height |-> height]

\* min_white_ratio = 0.95 as a fraction
MinWhiteRatioNum == 95
MinWhiteRatioDen == 100

\* white_pixels / width >= min_white_ratio
IsGapRow(image, k) ==
    (image.width - Cardinality(image.rows[k])) * MinWhiteRatioDen
        >= MinWhiteRatioNum * image.width

\* the loop with both length tests strict: a run of exactly min_gap_height
\* rows is not a gap
RECURSIVE GapLoopStrict(_, _, _, _, _)
GapLoopStrict(image, y, gap_start, gaps, min_gap_height) ==
    IF y >= Height(image)
    THEN IF gap_start # None /\ Height(image) - gap_start[1] > min_gap_height
         THEN Append(gaps, <<gap_start[1], Height(image)>>)
         ELSE gaps
    ELSE IF IsGapRow(image, y + 1) /\ gap_start = None
         THEN GapLoopStrict(image, y + 1, Some(y), gaps, min_gap_height)
         ELSE IF ~IsGapRow(image, y + 1) /\ gap_start # None
              THEN GapLoopStrict(image, y + 1, None,
                                 IF y - gap_start[1] > min_gap_height
                                 THEN Append(gaps, <<gap_start[1], y>>) ELSE gaps,
                                 min_gap_height)
              ELSE GapLoopStrict(image, y + 1, gap_start, gaps, min_gap_height)

\* the loop "for y, is_gap in enumerate(is_gap_row)" and the step after it;
\* y is 0-based, gap_start is None or Some(start)
RECURSIVE GapLoop(_, _, _, _, _)
GapLoop(image, y, gap_start, gaps, min_gap_height) ==
    IF y >= Height(image)
    THEN IF gap_start # None /\ Height(image) - gap_start[1] >= min_gap_height
         THEN Append(gaps, <<gap_start[1], Height(image)>>)
         ELSE gaps
    ELSE IF IsGapRow(image, y + 1) /\ gap_start = None
         THEN GapLoop(image, y + 1, Some(y), gaps, min_gap_height)
         ELSE IF ~IsGapRow(image, y + 1) /\ gap_start # None
              THEN GapLoop(image, y + 1, None,
                           IF y - gap_start[1] >= min_gap_height
                           THEN Append(gaps, <<gap_start[1], y>>) ELSE gaps,
                           min_gap_height)
              ELSE GapLoop(image, y + 1, gap_start, gaps, min_gap_height)

\* the function without the step after the loop: a run that reaches the
\* last row is never reported
detect_horizontal_gaps_NoLastRun(image, min_gap_height) ==
    LET gaps == GapLoop(image, 0, None, <<>>, min_gap_height)
    IN  IF gaps # <<>> /\ gaps[Len(gaps)][2] = Height(image)
        THEN SubSeq(gaps, 1, Len(gaps) - 1) ELSE gaps

detect_horizontal_gaps(image, min_gap_height) ==
    GapLoop(image, 0, None, <<>>, min_gap_height)

\* the loop with each region begun at the start of the gap before it
RECURSIVE BetweenGapsFromGapStart(_, _, _, _)
BetweenGapsFromGapStart(gaps, i, width, min_gap_height) ==
    IF i >= Len(gaps) THEN <<>>
    ELSE LET current_gap_start == gaps[i][1]
             next_gap_start    == gaps[i + 1][1]
         IN  (IF next_gap_start - current_gap_start > min_gap_height
              THEN <<BoundingBox(0, current_gap_start, width,
                                 next_gap_start - current_gap_start)>>
              ELSE <<>>)
             \o BetweenGapsFromGapStart(gaps, i + 1, width, min_gap_height)

\* the loop "for i in range(len(gaps) - 1)"
RECURSIVE BetweenGaps(_, _, _, _)
BetweenGaps(gaps, i, width, min_gap_height) ==
    IF i >= Len(gaps) THEN <<>>
    ELSE LET current_gap_end == gaps[i][2]
             next_gap_start  == gaps[i + 1][1]
         IN  (IF next_gap_start - current_gap_end > min_gap_height
              THEN <<BoundingBox(0, current_gap_end, width,
                                 next_gap_start - current_gap_end)>>
              ELSE <<>>)
             \o BetweenGaps(gaps, i + 1, width, min_gap_height)

\* the trailing span kept when it is exactly min_gap_height long
find_question_boundaries_KeepEqual(image, min_gap_height) ==
    LET width  == image.width
        height == Height(image)
        gaps   == detect_horizontal_gaps(image, min_gap_height)
    IN  IF gaps # <<>>
        THEN (IF gaps[1][1] > min_gap_height
              THEN <<BoundingBox(0, 0, width, gaps[1][1])>> ELSE <<>>)
             \o BetweenGaps(gaps, 1, width, min_gap_height)
             \o (IF height - gaps[Len(gaps)][2] >= min_gap_height
                 THEN <<BoundingBox(0, gaps[Len(gaps)][2], width,
                                    height - gaps[Len(gaps)][2])>>
                 ELSE <<>>)
        ELSE <<BoundingBox(0, 0, width, height)>>

\* the length filter applied to the whole image as well when there is no gap
find_question_boundaries_NoGapFiltered(image, min_gap_height) ==
    LET width  == image.width
        height == Height(image)
        gaps   == detect_horizontal_gaps(image, min_gap_height)
    IN  IF gaps # <<>>
        THEN (IF gaps[1][1] > min_gap_height
              THEN <<BoundingBox(0, 0, width, gaps[1][1])>> ELSE <<>>)
             \o BetweenGaps(gaps, 1, width, min_gap_height)
             \o (IF height - gaps[Len(gaps)][2] > min_gap_height
                 THEN <<BoundingBox(0, gaps[Len(gaps)][2], width,
                                    height - gaps[Len(gaps)][2])>>
                 ELSE <<>>)
        ELSE IF height > min_gap_height
             THEN <<BoundingBox(0, 0, width, height)>> ELSE <<>>

\* the trailing region given the height of the whole image
find_question_boundaries_TrailingFromTop(image, min_gap_height) ==
    LET width  == image.width
        height == Height(image)
        gaps   == detect_horizontal_gaps(image, min_gap_height)
    IN  IF gaps # <<>>
        THEN (IF gaps[1][1] > min_gap_height
              THEN <<BoundingBox(0, 0, width, gaps[1][1])>> ELSE <<>>)
             \o BetweenGaps(gaps, 1, width, min_gap_height)
             \o (IF height - gaps[Len(gaps)][2] > min_gap_height
                 THEN <<BoundingBox(0, gaps[Len(gaps)][2], width, height)>>
                 ELSE <<>>)
        ELSE <<BoundingBox(0, 0, width, height)>>

find_question_boundaries(image, min_gap_height) ==
    LET width  == image.width
        height == Height(image)
        gaps   == detect_horizontal_gaps(image, min_gap_height)
    IN  IF gaps # <<>>
        THEN (IF gaps[1][1] > min_gap_height
              THEN <<BoundingBox(0, 0, width, gaps[1][1])>> ELSE <<>>)
             \o BetweenGaps(gaps, 1, width, min_gap_height)
             \o (IF height - gaps[Len(gaps)][2] > min_gap_height
                 THEN <<BoundingBox(0, gaps[Len(gaps)][2], width,
                                    height - gaps[Len(gaps)][2])>>
                 ELSE <<>>)
        ELSE <<BoundingBox(0, 0, width, height)>>

\* default of the padding parameter of trim_whitespace
DefaultPadding == 10

\* the box with the lower right corner at max + padding, the last content
\* row and column left out
TrimBoxNoPlusOne(image, padding) ==
    LET ys == {k - 1 : k \in {j \in 1..Height(image) : image.rows[j] # {}}}
        xs == UNION {image.rows[j] : j \in 1..Height(image)}
    IN  IF ys = {} \/ xs = {} THEN None
        ELSE Some(<<Max(0, SetMin(xs) - padding),
                    Max(0, SetMin(ys) - padding),
                    Min(image.width, SetMax(xs) + padding),
                    Min(Height(image), SetMax(ys) + padding)>>)

\* lines 213-229: the box (x_min, y_min, x_max, y_max) to crop, None for an
\* image without content
TrimBox(image, padding) ==
    LET ys == {k - 1 : k \in {j \in 1..Height(image) : image.rows[j] # {}}}
        xs == UNION {image.rows[j] : j \in 1..Height(image)}
    IN  IF ys = {} \/ xs = {} THEN None
        ELSE Some(<<Max(0, SetMin(xs) - padding),
                    Max(0, SetMin(ys) - padding),
                    Min(image.width, SetMax(xs) + padding + 1),
                    Min(Height(image), SetMax(ys) + padding + 1)>>)

\* the function without the early return: an image without content is
\* cropped to nothing
trim_whitespace_NoEarlyReturn(image, padding) ==
    LET box == TrimBox(image, padding)
    IN  IF box = None THEN Crop(image, 0, 0, 0, 0)
        ELSE Crop(image, box[1][1], box[1][2], box[1][3], box[1][4])

trim_whitespace(image, padding) ==
    LET box == TrimBox(image, padding)
    IN  IF box = None THEN image
        ELSE Crop(image, box[1][1], box[1][2], box[1][3], box[1][4])

\* the loop returning the size of the trimmed image as the bbox
RECURSIVE DetectLoopTightBox(_, _, _)
DetectLoopTightBox(image, boundaries, min_question_height) ==
    IF boundaries = <<>> THEN <<>>
    ELSE LET bbox   == Head(boundaries)
             rest   == DetectLoopTightBox(image, Tail(boundaries),
                                          min_question_height)
             region == trim_whitespace(
                           Crop(image, bbox.x, bbox.y,
                                bbox.x + bbox.width, bbox.y + bbox.height),
                           DefaultPadding)
         IN  IF bbox.height < min_question_height THEN rest
             ELSE IF Height(region) >= min_question_height
                  THEN <<[image |-> region,
                          bbox  |-> BoundingBox(bbox.x, bbox.y, region.width,
                                                Height(region))]>> \o rest
                  ELSE rest

\* the loop without the height test after trimming
RECURSIVE DetectLoopNoRecheck(_, _, _)
DetectLoopNoRecheck(image, boundaries, min_question_height) ==
    IF boundaries = <<>> THEN <<>>
    ELSE LET bbox   == Head(boundaries)
             rest   == DetectLoopNoRecheck(image, Tail(boundaries),
                                           min_question_height)
             region == trim_whitespace(
                           Crop(image, bbox.x, bbox.y,
                                bbox.x + bbox.width, bbox.y + bbox.height),
                           DefaultPadding)
         IN  IF bbox.height < min_question_height THEN rest
             ELSE <<[image |-> region, bbox |-> bbox]>> \o rest

\* the loop "for bbox in boundaries" of detect_questions
RECURSIVE DetectLoop(_, _, _)
DetectLoop(image, boundaries, min_question_height) ==
    IF boundaries = <<>> THEN <<>>
    ELSE LET bbox   == Head(boundaries)
             rest   == DetectLoop(image, Tail(boundaries), min_question_height)
             region == trim_whitespace(
                           Crop(image, bbox.x, bbox.y,
                                bbox.x + bbox.width, bbox.y + bbox.height),
                           DefaultPadding)
         IN  IF bbox.height < min_question_height THEN rest
             ELSE IF Height(region) >= min_question_height
                  THEN <<[image |-> region, bbox |-> bbox]>> \o rest
                  ELSE rest

detect_questions(image, min_gap_height, min_question_height) ==
    DetectLoop(image, find_question_boundaries(image, min_gap_height),
               min_question_height)

----------------------------------------------------------------------------
(* output_manager.py *)

DigitChar(d) ==
    CASE d = 0 -> "0" [] d = 1 -> "1" [] d = 2 -> "2" [] d = 3 -> "3"
      [] d = 4 -> "4" [] d = 5 -> "5" [] d = 6 -> "6" [] d = 7 -> "7"
      [] d = 8 -> "8" [] d = 9 -> "9"

\* str(n) for n >= 0
RECURSIVE Decimal(_)
Decimal(n) ==
    IF n < 10 THEN <<DigitChar(n)>>
    ELSE Append(Decimal(n \div 10), DigitChar(n % 10))

RECURSIVE ZeroPad(_, _)
ZeroPad(text, width) ==
    IF Len(text) >= width THEN text ELSE ZeroPad(<<"0">> \o text, width)

\* an id that ignores the position: always q001
QuestionIdConstant(idx) == <<"q">> \o ZeroPad(Decimal(1), 3)

\* f"q{idx:03d}"
QuestionId(idx) == <<"q">> \o ZeroPad(Decimal(idx), 3)

create_question_record(question_id, number, theme, image_path, source_pages, column, bbox) ==
    [id |-> question_id, number |-> number, theme |-> theme,
     image_path |-> image_path, source_pages |-> source_pages,
     column |-> column, bbox |-> bbox]

\* a total that counts one record too many
MetadataOffByOne(qs, source_pdf, processed_at) ==
    [source_pdf |-> source_pdf, processed_at |-> processed_at,
     total_questions |-> Len(qs) + 1, questions |-> qs]

\* a source name stamped with the time of the run
MetadataStampedName(qs, source_pdf, processed_at) ==
    [source_pdf |-> source_pdf + processed_at, processed_at |-> processed_at,
     total_questions |-> Len(qs), questions |-> qs]

\* the dict save_metadata dumps (additional_info is None in the pipeline)
Metadata(qs, source_pdf, processed_at) ==
    [source_pdf |-> source_pdf, processed_at |-> processed_at,
     total_questions |-> Len(qs), questions |-> qs]

----------------------------------------------------------------------------
(* main.py: load_config.  A dict is a function on its keys; gap ratios are   *)
(* in percent.                                                               *)

default_config ==
    [pdf       |-> [dpi |-> 300],
     layout    |-> [columns |-> 2, column_gap_ratio |-> 5],
     detection |-> [min_gap_height |-> 30,
                    number_pattern |-> "^\\s*(\\d+)\\s*[.\\):]",
                    whitespace_threshold |-> 250],
     output    |-> [image_format |-> "png", image_quality |-> 95]]

\* an update that replaces the section by the user's dict
UpdateReplace(d, u) == u

\* dict.update
Update(d, u) ==
    [k \in DOMAIN d \cup DOMAIN u |-> IF k \in DOMAIN u THEN u[k] ELSE d[k]]

\* user_config is None (no file, or the path does not exist) or Some(dict of
\* sections); every section of a user file is a dict here
load_config(user_config) ==
    IF user_config = None THEN default_config
    ELSE LET u == user_config[1]
         IN  [key \in DOMAIN default_config \cup DOMAIN u |->
                IF key \in DOMAIN u
                THEN IF key \in DOMAIN default_config
                     THEN Update(default_config[key], u[key])
                     ELSE u[key]
                ELSE default_config[key]]

\* config['detection'].get('min_question_height', 100)
DefaultMinQuestionHeight == 100

MinQuestionHeightOf(cfg) ==
    IF "min_question_height" \in DOMAIN cfg.detection
    THEN cfg.detection.min_question_height
    ELSE DefaultMinQuestionHeight

----------------------------------------------------------------------------
(* Inputs of the CLI model *)

\* what a recognition call does when it is made
Raises == [raised |-> TRUE]
Returns(text) == [raised |-> FALSE, text |-> text]

\* recognition outcomes of a region: "7"; "0"; both calls raise; the first
\* raises and the unconstrained call reads "no 12"
OcrOutcomes ==
    {[first |-> Returns(<<"7">>), second |-> Raises],
     [first |-> Returns(<<"0">>), second |-> Raises],
     [first |-> Raises, second |-> Raises],
     [first |-> Raises, second |-> Returns(<<"n", "o", " ", "1", "2">>)]}

\* a page raster is 42 pixels wide; a pixel row has ink in the left column
\* (x = 3, 4), in the right column (x = 25, 26), in both or in neither
PageRows == {{}, {3, 4}, {25, 26}, {3, 4, 25, 26}}
PageHeights == 1..2
PageImages ==
    {[width |-> 42, rows |-> r] : r \in UNION {[1..h -> PageRows] : h \in PageHeights}}

\* the page lists a PDF can rasterize to
PageCounts == 0..2
AllPdfs == UNION {[1..n -> PageImages] : n \in PageCounts}

\* user configuration files: none, or one that sets the detection heights
UserConfigs ==
    {None,
     Some([detection |-> [min_gap_height |-> 1, min_question_height |-> 2]]),
     Some([detection |-> [min_gap_height |-> 2, min_question_height |-> 1]])}

Invocations ==
    {[input |-> i, batch |-> b, config_file |-> c] :
        i \in {"missing", "file", "dir"}, b \in BOOLEAN,
        c \in {[readable |-> FALSE]}
              \cup {[readable |-> TRUE, user_config |-> u] : u \in UserConfigs}}

----------------------------------------------------------------------------
(* Initial values *)

NoFrame ==
    /\ ppc = "idle"
    /\ pdf = <<>>
    /\ recog = <<>>
    /\ pages = <<>>
    /\ stitched_image = <<>>
    /\ detected_questions = <<>>
    /\ ridx = 0
    /\ question_number = None
    /\ skipped_count = 0

NoOutput ==
    /\ questions = <<>>
    /\ images = <<>>
    /\ manifest = None
    /\ manifest_writes = 0
    /\ first_manifest = None

NoCli ==
    /\ mpc = "none"
    /\ args = <<>>
    /\ config = None
    /\ exit_code = None
    /\ run = 0
    /\ now = 0
    /\ pdf_files = 0
    /\ file_idx = 0
    /\ attempted = 0
    /\ results = <<>>

NoCall ==
    /\ fcall = <<>>
    /\ fret = None

Init ==
    /\ mpc = "load_config"
    /\ args \in Invocations
    /\ config = None
    /\ exit_code = None
    /\ run = 1
    /\ now = 0
    /\ pdf_files = 0
    /\ file_idx = 0
    /\ attempted = 0
    /\ results = <<>>
    /\ NoFrame
    /\ NoOutput
    /\ NoCall

----------------------------------------------------------------------------
(* main.py: process_single_pdf, one action per step *)

\* entering process_single_pdf: fresh locals, and the output directory of
\* this file as the disk holds it
EnterFrame ==
    /\ ppc' = "convert"
    /\ pages' = <<>>
    /\ stitched_image' = <<>>
    /\ detected_questions' = <<>>
    /\ ridx' = 0
    /\ question_number' = None
    /\ skipped_count' = 0
    /\ questions' = <<>>
    /\ images' = <<>>
    /\ manifest_writes' = 0

\* leaving process_single_pdf (return or exception): the locals are gone
LeaveFrame(pc) ==
    /\ ppc' = pc
    /\ pages' = <<>>
    /\ stitched_image' = <<>>
    /\ detected_questions' = <<>>
    /\ ridx' = 0
    /\ question_number' = None
    /\ skipped_count' = 0

\* the name of the file in progress (pdf_path.name)
SourcePdf == IF mpc = "batch" THEN file_idx ELSE 1

\* line 69: convert_pdf_to_images returns the pages of the file.  A second
\* invocation on the same bytes reads the same pages.
ConvertPdf ==
    /\ ppc = "convert"
    /\ \E p \in (IF run = 1 THEN AllPdfs ELSE {pdf}) :
          /\ pdf' = p
          /\ pages' = p
    /\ recog' = IF run = 1 THEN <<>> ELSE recog
    /\ ppc' = "stitch"
    /\ UNCHANGED <<stitched_image, detected_questions, ridx, question_number,
                   skipped_count>>
    /\ UNCHANGED <<cliVars, outVars, fnVars>>

\* lines 78-80: process_pages_to_single_image on at least one page
Stitch ==
    /\ ppc = "stitch"
    /\ pages # <<>>
    /\ stitched_image' =
          process_pages_to_single_image(pages, config[1].layout.column_gap_ratio)
    /\ ppc' = "detect"
    /\ UNCHANGED <<pdf, recog, pages, detected_questions, ridx, question_number,
                   skipped_count>>
    /\ UNCHANGED <<cliVars, outVars, fnVars>>

\* stitch_vertically raises ValueError on an empty list
StitchEmpty ==
    /\ ppc = "stitch"
    /\ pages = <<>>
    /\ LeaveFrame("raised")
    /\ UNCHANGED <<pdf, recog>>
    /\ UNCHANGED <<cliVars, outVars, fnVars>>

\* lines 89-111: detect_questions, then the OutputManager is constructed
Detect ==
    /\ ppc = "detect"
    /\ detected_questions' =
          detect_questions(stitched_image,
                           config[1].detection.min_gap_height,
                           MinQuestionHeightOf(config[1]))
    /\ ridx' = 1
    /\ skipped_count' = 0
    /\ questions' = <<>>
    /\ ppc' = "loop"
    /\ UNCHANGED <<pdf, recog, pages, stitched_image, question_number>>
    /\ UNCHANGED <<images, manifest, manifest_writes, first_manifest>>
    /\ UNCHANGED <<cliVars, fnVars>>

\* line 116: the number of the next region.  The recognition engine answers
\* as it did for this region in the earlier run on the same bytes, if any.
ExtractNumber ==
    /\ ppc = "loop"
    /\ ridx <= Len(detected_questions)
    /\ \E o \in (IF ridx <= Len(recog) THEN {recog[ridx]} ELSE OcrOutcomes) :
          /\ recog' = IF ridx <= Len(recog) THEN recog ELSE Append(recog, o)
          /\ question_number' = extract_question_number_from_top_left(o)
    /\ ppc' = "branch"
    /\ UNCHANGED <<pdf, pages, stitched_image, detected_questions, ridx,
                   skipped_count>>
    /\ UNCHANGED <<cliVars, outVars, fnVars>>

\* lines 119-121 as they would read if a region without a number were an error
DiscardRaises ==
    /\ ppc = "branch"
    /\ question_number = None
    /\ LeaveFrame("raised")
    /\ UNCHANGED <<pdf, recog>>
    /\ UNCHANGED <<cliVars, outVars, fnVars>>

\* lines 119-121: no number, the region is discarded
Discard ==
    /\ ppc = "branch"
    /\ question_number = None
    /\ skipped_count' = skipped_count + 1
    /\ ridx' = ridx + 1
    /\ ppc' = "loop"
    /\ UNCHANGED <<pdf, recog, pages, stitched_image, detected_questions,
                   question_number>>
    /\ UNCHANGED <<cliVars, outVars, fnVars>>

\* line 80 reading the width of each page instead of its height
PageHeightsOfWidths(pgs) == [k \in 1..Len(pgs) |-> pgs[k].width]

\* line 80
PageHeightsOf(pgs) == [k \in 1..Len(pgs) |-> Height(pgs[k])]

\* a file name that carries the time of the run
ImagePathStamped(question_id, image_format) ==
    <<"images/">> \o question_id \o <<"_", now, ".", image_format>>

\* the file name save_question_image writes and the path the record holds
ImagePath(question_id, image_format) ==
    <<"images/">> \o question_id \o <<".", image_format>>

\* add_question followed by save_all inside the loop
AddQuestionAndSave ==
    /\ ppc = "branch"
    /\ question_number # None
    /\ LET bbox         == detected_questions[ridx].bbox
           original_pos == calculate_original_position(
                              bbox.y, PageHeightsOf(pages), Len(pages))
           idx          == Len(questions) + 1
           question_id  == QuestionId(idx)
           path         == ImagePath(question_id, config[1].output.image_format)
       IN  /\ images' = Append(images, path)
           /\ questions' = Append(questions,
                  create_question_record(question_id, question_number[1], None,
                                         path, <<original_pos.page>>,
                                         original_pos.column, bbox))
    /\ manifest' = Some(Metadata(questions', SourcePdf, now))
    /\ manifest_writes' = manifest_writes + 1
    /\ ridx' = ridx + 1
    /\ ppc' = "loop"
    /\ UNCHANGED <<pdf, recog, pages, stitched_image, detected_questions,
                   question_number, skipped_count>>
    /\ UNCHANGED first_manifest
    /\ UNCHANGED <<cliVars, fnVars>>

\* lines 123-138 with the position of the bottom edge of the region
AddQuestionBottomEdge ==
    /\ ppc = "branch"
    /\ question_number # None
    /\ LET bbox         == detected_questions[ridx].bbox
           original_pos == calculate_original_position(
                              bbox.y + bbox.height - 1,
                              PageHeightsOf(pages), Len(pages))
           idx          == Len(questions) + 1
           question_id  == QuestionId(idx)
           path         == ImagePath(question_id, config[1].output.image_format)
       IN  /\ images' = Append(images, path)
           /\ questions' = Append(questions,
                  create_question_record(question_id, question_number[1], None,
                                         path, <<original_pos.page>>,
                                         original_pos.column, bbox))
    /\ ridx' = ridx + 1
    /\ ppc' = "loop"
    /\ UNCHANGED <<pdf, recog, pages, stitched_image, detected_questions,
                   question_number, skipped_count>>
    /\ UNCHANGED <<manifest, manifest_writes, first_manifest>>
    /\ UNCHANGED <<cliVars, fnVars>>

\* lines 123-138 with OutputManager.add_question (output_manager.py 166-194)
AddQuestion ==
    /\ ppc = "branch"
    /\ question_number # None
    /\ LET bbox         == detected_questions[ridx].bbox
           original_pos == calculate_original_position(
                              bbox.y, PageHeightsOf(pages), Len(pages))
           idx          == Len(questions) + 1
           question_id  == QuestionId(idx)
           path         == ImagePath(question_id, config[1].output.image_format)
       IN  /\ images' = Append(images, path)
           /\ questions' = Append(questions,
                  create_question_record(question_id, question_number[1], None,
                                         path, <<original_pos.page>>,
                                         original_pos.column, bbox))
    /\ ridx' = ridx + 1
    /\ ppc' = "loop"
    /\ UNCHANGED <<pdf, recog, pages, stitched_image, detected_questions,
                   question_number, skipped_count>>
    /\ UNCHANGED <<manifest, manifest_writes, first_manifest>>
    /\ UNCHANGED <<cliVars, fnVars>>

\* lines 143-150: save_all writes metadata.json, get_summary, return
SaveAll ==
    /\ ppc = "loop"
    /\ ridx > Len(detected_questions)
    /\ manifest' = Some(Metadata(questions, SourcePdf, now))
    /\ manifest_writes' = manifest_writes + 1
    /\ ppc' = "returned"
    /\ UNCHANGED <<pdf, recog, pages, stitched_image, detected_questions, ridx,
                   question_number, skipped_count>>
    /\ UNCHANGED <<questions, images, first_manifest>>
    /\ UNCHANGED <<cliVars, fnVars>>

\* a step of the pipeline raises (unreadable PDF, out of memory, a failing
\* image write, an unwritable output directory): the exception leaves
\* process_single_pdf before the step has any effect.  Lines 119-121 call
\* nothing, so nothing raises between a failed extraction and the next
\* iteration.
PipelineRaises ==
    /\ ppc \in {"convert", "stitch", "detect", "loop", "branch"}
    /\ ppc = "branch" => question_number # None
    /\ LeaveFrame("raised")
    /\ UNCHANGED <<pdf, recog>>
    /\ UNCHANGED <<cliVars, outVars, fnVars>>

----------------------------------------------------------------------------
(* main.py: main and process_batch *)

Exit(code) ==
    /\ mpc' = "exited"
    /\ exit_code' = Some(code)

\* line 237: load_config(args.config) returns the merged configuration
LoadConfig ==
    /\ mpc = "load_config"
    /\ args.config_file.readable
    /\ config' = Some(load_config(args.config_file.user_config))
    /\ mpc' = "check_input"
    /\ UNCHANGED <<args, exit_code, run, now, pdf_files, file_idx, attempted,
                   results>>
    /\ UNCHANGED <<fileVars, outVars, fnVars>>

\* line 237: the configuration file cannot be parsed; the exception leaves
\* main and the interpreter exits with status 1
LoadConfigRaises ==
    /\ mpc = "load_config"
    /\ ~args.config_file.readable
    /\ Exit(1)
    /\ UNCHANGED <<args, config, run, now, pdf_files, file_idx, attempted,
                   results>>
    /\ UNCHANGED <<fileVars, outVars, fnVars>>

\* lines 242-244
InputMissing ==
    /\ mpc = "check_input"
    /\ args.input = "missing"
    /\ Exit(1)
    /\ UNCHANGED <<args, config, run, now, pdf_files, file_idx, attempted,
                   results>>
    /\ UNCHANGED <<fileVars, outVars, fnVars>>

\* lines 247-250: --batch with a path that is not a directory
BatchNotDir ==
    /\ mpc = "check_input"
    /\ args.input = "file"
    /\ args.batch
    /\ Exit(1)
    /\ UNCHANGED <<args, config, run, now, pdf_files, file_idx, attempted,
                   results>>
    /\ UNCHANGED <<fileVars, outVars, fnVars>>

\* lines 251, 171-179: process_batch lists the PDFs of the directory
BatchStart ==
    /\ mpc = "check_input"
    /\ args.input = "dir"
    /\ \E n \in 0..MaxFiles : pdf_files' = n
    /\ file_idx' = 1
    /\ results' = <<>>
    /\ mpc' = "batch"
    /\ UNCHANGED <<args, config, exit_code, run, now, attempted>>
    /\ UNCHANGED <<fileVars, outVars, fnVars>>

\* lines 180-187: the next file; its output directory is its own
BatchCall ==
    /\ mpc = "batch"
    /\ ppc = "idle"
    /\ file_idx <= pdf_files
    /\ attempted' = attempted + 1
    /\ EnterFrame
    /\ pdf' = <<>>
    /\ recog' = <<>>
    /\ manifest' = None
    /\ UNCHANGED first_manifest
    /\ UNCHANGED <<mpc, args, config, exit_code, run, now, pdf_files, file_idx,
                   results>>
    /\ UNCHANGED fnVars

\* lines 188-189, 198: the summary becomes a "success" entry
BatchSuccess ==
    /\ mpc = "batch"
    /\ ppc = "returned"
    /\ results' = Append(results,
          [file |-> file_idx, status |-> "success",
           total_questions |-> Len(questions)])
    /\ file_idx' = file_idx + 1
    /\ LeaveFrame("idle")
    /\ UNCHANGED <<pdf, recog>>
    /\ UNCHANGED <<mpc, args, config, exit_code, run, now, pdf_files, attempted>>
    /\ UNCHANGED <<outVars, fnVars>>

\* the exception is not caught: it leaves process_batch and main
BatchErrorAbort ==
    /\ mpc = "batch"
    /\ ppc = "raised"
    /\ Exit(1)
    /\ UNCHANGED <<args, config, run, now, pdf_files, file_idx, attempted,
                   results>>
    /\ UNCHANGED <<fileVars, outVars, fnVars>>

\* lines 190-198: the exception is caught and recorded
BatchError ==
    /\ mpc = "batch"
    /\ ppc = "raised"
    /\ results' = Append(results,
          [file |-> file_idx, status |-> "error", error |-> "str(e)"])
    /\ file_idx' = file_idx + 1
    /\ LeaveFrame("idle")
    /\ UNCHANGED <<pdf, recog>>
    /\ UNCHANGED <<mpc, args, config, exit_code, run, now, pdf_files, attempted>>
    /\ UNCHANGED <<outVars, fnVars>>

\* main exits with status 1 when some file of the batch failed
BatchDoneFailing ==
    /\ mpc = "batch"
    /\ ppc = "idle"
    /\ file_idx > pdf_files
    /\ Exit(IF \E i \in 1..Len(results) : results[i].status = "error"
            THEN 1 ELSE 0)
    /\ UNCHANGED <<args, config, run, now, pdf_files, file_idx, attempted,
                   results>>
    /\ UNCHANGED <<fileVars, outVars, fnVars>>

\* lines 173-175, 200, 253-255: the list is returned, the tally is printed and
\* main returns
BatchDone ==
    /\ mpc = "batch"
    /\ ppc = "idle"
    /\ file_idx > pdf_files
    /\ Exit(0)
    /\ UNCHANGED <<args, config, run, now, pdf_files, file_idx, attempted,
                   results>>
    /\ UNCHANGED <<fileVars, outVars, fnVars>>

\* lines 256-263: single-file mode calls process_single_pdf on the path
SingleCall ==
    /\ mpc = "check_input"
    /\ args.input = "file"
    /\ ~args.batch
    /\ mpc' = "single"
    /\ EnterFrame
    /\ UNCHANGED <<pdf, recog, manifest, first_manifest>>
    /\ UNCHANGED <<args, config, exit_code, run, now, pdf_files, file_idx,
                   attempted, results>>
    /\ UNCHANGED fnVars

\* lines 264-265: the count is printed and main returns
SingleSuccess ==
    /\ mpc = "single"
    /\ ppc = "returned"
    /\ Exit(0)
    /\ LeaveFrame("idle")
    /\ UNCHANGED <<pdf, recog>>
    /\ UNCHANGED <<args, config, run, now, pdf_files, file_idx, attempted,
                   results>>
    /\ UNCHANGED <<outVars, fnVars>>

\* line 263: nothing catches the exception; the interpreter prints the
\* traceback and exits with status 1
SingleRaises ==
    /\ mpc = "single"
    /\ ppc = "raised"
    /\ Exit(1)
    /\ UNCHANGED fileVars
    /\ UNCHANGED <<args, config, run, now, pdf_files, file_idx, attempted,
                   results>>
    /\ UNCHANGED <<outVars, fnVars>>

\* the same command line is run again on the same file, same configuration
\* and same output directory, at the same clock reading or a later one
Reinvoke ==
    /\ mpc = "exited"
    /\ run = 1
    /\ args.input = "file"
    /\ exit_code = Some(0)
    /\ run' = 2
    /\ \E t \in now..MaxClock : now' = t
    /\ first_manifest' = manifest
    /\ mpc' = "load_config"
    /\ config' = None
    /\ exit_code' = None
    /\ UNCHANGED <<args, pdf_files, file_idx, attempted, results>>
    /\ UNCHANGED <<fileVars, questions, images, manifest, manifest_writes>>
    /\ UNCHANGED fnVars

Next ==
    \/ LoadConfig
    \/ LoadConfigRaises
    \/ InputMissing
    \/ BatchNotDir
    \/ BatchStart
    \/ BatchCall
    \/ BatchSuccess
    \/ BatchError
    \/ BatchDone
    \/ SingleCall
    \/ SingleSuccess
    \/ SingleRaises
    \/ Reinvoke
    \/ ConvertPdf
    \/ Stitch
    \/ StitchEmpty
    \/ Detect
    \/ ExtractNumber
    \/ Discard
    \/ AddQuestion
    \/ SaveAll
    \/ PipelineRaises

Spec == Init /\ [][Next]_vars

----------------------------------------------------------------------------
(* SpecPos: calculate_original_position on bounded inputs *)

PosInit ==
    /\ fcall \in {[y_in_stitched |-> y, page_heights |-> hs, num_pages |-> n] :
                    y \in 0..(2 * MaxPosPages * MaxPosHeight + 1),
                    hs \in SeqsOf(1..MaxPosHeight, 1, MaxPosPages),
                    n \in 1..MaxPosPages}
    /\ fret = None
    /\ NoCli
    /\ NoFrame
    /\ NoOutput

PosCall ==
    /\ fret = None
    /\ "y_in_stitched" \in DOMAIN fcall
    /\ fret' = Some(
          [column_starts |-> ColumnStarts(fcall.page_heights, fcall.num_pages),
           result |-> calculate_original_position(
                         fcall.y_in_stitched, fcall.page_heights, fcall.num_pages)])
    /\ UNCHANGED <<fcall, cliVars, fileVars, outVars>>

SpecPos == PosInit /\ [][PosCall]_vars

----------------------------------------------------------------------------
(* SpecNum: extract_question_number_from_top_left on bounded recognition     *)
(* outcomes                                                                  *)

TextChars == {"0", "1", "7", "9", "a", " "}
Texts == SeqsOf(TextChars, 0, MaxTextLen)

NumInit ==
    /\ fcall \in {[ocr |-> [first |-> Returns(t), second |-> s]] :
                    t \in Texts, s \in {Raises, Returns(<<"7">>)}}
                 \cup {[ocr |-> [first |-> Raises, second |-> s]] :
                         s \in {Raises} \cup {Returns(t) : t \in Texts}}
    /\ fret = None
    /\ NoCli
    /\ NoFrame
    /\ NoOutput

NumCall ==
    /\ fret = None
    /\ "ocr" \in DOMAIN fcall
    /\ fret' = Some(
          [number |-> extract_question_number_from_top_left(fcall.ocr),
           calls  |-> RecognizeText(fcall.ocr).calls])
    /\ UNCHANGED <<fcall, cliVars, fileVars, outVars>>

SpecNum == NumInit /\ [][NumCall]_vars

----------------------------------------------------------------------------
(* SpecLabelled: process_single_pdf on two-page, two-column PDFs in which    *)
(* each column holds two regions separated by a white band, the regions      *)
(* labelled 1, 2, ... at their top left in reading order                     *)

MarginHeights == 0..2
RegionHeights == 2..3
BandHeights == 1..2
Layouts ==
    [top : MarginHeights, region : RegionHeights, band : BandHeights,
     bottom : MarginHeights]

\* the page of a layout: in both columns white rows at the top, a region, a
\* white band across the column, a region, white rows at the bottom
LabelledPage(l) ==
    [width |-> 42,
     rows  |-> [k \in 1..(l.top + 2 * l.region + l.band + l.bottom) |->
                  IF \/ l.top < k /\ k <= l.top + l.region
                     \/ /\ l.top + l.region + l.band < k
                        /\ k <= l.top + 2 * l.region + l.band
                  THEN {3, 4, 25, 26} ELSE {}]]

LabelledPdfs == {<<LabelledPage(l), LabelledPage(l)>> : l \in Layouts}

\* the composite row at which column c (counted from 0) of the pages begins
ColumnTop(pgs, c) ==
    2 * SumSeq([k \in 1..(c \div 2) |-> Height(pgs[k])])
      + (c % 2) * Height(pgs[c \div 2 + 1])

\* the composite rows at which a region of the pages begins: an ink row at
\* the top of a column or under a white row
RegionStarts(image, pgs) ==
    {y \in 0..(Height(image) - 1) :
        /\ image.rows[y + 1] # {}
        /\ \/ \E c \in 0..(2 * Len(pgs) - 1) : y = ColumnTop(pgs, c)
           \/ image.rows[y] = {}}

\* what the recognition engine reads at the top left of a detected region:
\* the label of the first region that begins inside it
ReadLabel(image, pgs, bbox) ==
    LET starts == RegionStarts(image, pgs)
        inside == {y \in starts : bbox.y <= y /\ y < bbox.y + bbox.height}
    IN  IF inside = {} THEN [first |-> Raises, second |-> Raises]
        ELSE [first  |-> Returns(Decimal(
                            Cardinality({y \in starts : y <= SetMin(inside)}))),
              second |-> Raises]

\* process_single_pdf has been called on one of the PDFs with a
\* configuration file that sets the detection heights
LabelledInit ==
    /\ mpc = "single"
    /\ args \in {[input |-> "file", batch |-> FALSE,
                  config_file |-> [readable |-> TRUE, user_config |-> u]] :
                    u \in UserConfigs \ {None}}
    /\ config = Some(load_config(args.config_file.user_config))
    /\ exit_code = None
    /\ run = 1
    /\ now = 0
    /\ pdf_files = 0
    /\ file_idx = 0
    /\ attempted = 0
    /\ results = <<>>
    /\ ppc = "convert"
    /\ pdf \in LabelledPdfs
    /\ recog = <<>>
    /\ pages = <<>>
    /\ stitched_image = <<>>
    /\ detected_questions = <<>>
    /\ ridx = 0
    /\ question_number = None
    /\ skipped_count = 0
    /\ NoOutput
    /\ NoCall

\* line 69 on the PDF at hand
ConvertGivenPdf ==
    /\ ppc = "convert"
    /\ pages' = pdf
    /\ ppc' = "stitch"
    /\ UNCHANGED <<pdf, recog, stitched_image, detected_questions, ridx,
                   question_number, skipped_count>>
    /\ UNCHANGED <<cliVars, outVars, fnVars>>

\* line 116 with the labels as the recognition engine reads them
LabelledExtractNumber ==
    /\ ppc = "loop"
    /\ ridx <= Len(detected_questions)
    /\ LET o == ReadLabel(stitched_image, pages, detected_questions[ridx].bbox)
       IN  /\ recog' = Append(recog, o)
           /\ question_number' = extract_question_number_from_top_left(o)
    /\ ppc' = "branch"
    /\ UNCHANGED <<pdf, pages, stitched_image, detected_questions, ridx,
                   skipped_count>>
    /\ UNCHANGED <<cliVars, outVars, fnVars>>

LabelledNext ==
    \/ ConvertGivenPdf
    \/ Stitch
    \/ Detect
    \/ LabelledExtractNumber
    \/ AddQuestion
    \/ SaveAll

SpecLabelled == LabelledInit /\ [][LabelledNext]_vars

----------------------------------------------------------------------------
(* SpecTall: process_single_pdf on one-page PDFs tall enough for             *)
(* trim_whitespace to cut rows off a region                                  *)

\* one page of 6 pixel rows: the composite has 12 rows, more than the
\* padding of trim_whitespace
TallHeights == {6}
TallPdfs ==
    {<<[width |-> 42, rows |-> r]>> :
        r \in UNION {[1..h -> PageRows] : h \in TallHeights}}

\* configuration files that set the detection heights: the default
\* min_gap_height with a min_question_height of 11 or 12 rows, or gaps from 2
\* rows and questions from 3 rows
TallConfigs ==
    {Some([detection |-> [min_question_height |-> 11]]),
     Some([detection |-> [min_question_height |-> 12]]),
     Some([detection |-> [min_gap_height |-> 2, min_question_height |-> 3]])}

TallInit ==
    /\ mpc = "single"
    /\ args \in {[input |-> "file", batch |-> FALSE,
                  config_file |-> [readable |-> TRUE, user_config |-> u]] :
                    u \in TallConfigs}
    /\ config = Some(load_config(args.config_file.user_config))
    /\ exit_code = None
    /\ run = 1
    /\ now = 0
    /\ pdf_files = 0
    /\ file_idx = 0
    /\ attempted = 0
    /\ results = <<>>
    /\ ppc = "convert"
    /\ pdf \in TallPdfs
    /\ recog = <<>>
    /\ pages = <<>>
    /\ stitched_image = <<>>
    /\ detected_questions = <<>>
    /\ ridx = 0
    /\ question_number = None
    /\ skipped_count = 0
    /\ NoOutput
    /\ NoCall

TallNext ==
    \/ ConvertGivenPdf
    \/ Stitch
    \/ Detect
    \/ ExtractNumber
    \/ Discard
    \/ AddQuestion
    \/ SaveAll

SpecTall == TallInit /\ [][TallNext]_vars

----------------------------------------------------------------------------
(* SpecGap: detect_horizontal_gaps and find_question_boundaries on bounded   *)
(* images                                                                    *)

MaxGapRows == 7
MaxGapHeight == 3

\* a raster 20 pixels wide; a pixel row is white, has one dark pixel (95%
\* white, still a gap row) or two (90% white)
GapRows == {{}, {0}, {0, 1}}
GapImages ==
    {[width |-> 20, rows |-> r] : r \in SeqsOf(GapRows, 1, MaxGapRows)}

GapInit ==
    /\ fcall \in {[image |-> i, min_gap_height |-> g] :
                    i \in GapImages, g \in 0..MaxGapHeight}
    /\ fret = None
    /\ NoCli
    /\ NoFrame
    /\ NoOutput

GapCall ==
    /\ fret = None
    /\ "min_gap_height" \in DOMAIN fcall
    /\ fret' = Some(
          [gaps       |-> detect_horizontal_gaps(fcall.image, fcall.min_gap_height),
           boundaries |-> find_question_boundaries(fcall.image,
                                                   fcall.min_gap_height)])
    /\ UNCHANGED <<fcall, cliVars, fileVars, outVars>>

SpecGap == GapInit /\ [][GapCall]_vars

----------------------------------------------------------------------------
(* SpecTrim: trim_whitespace on bounded images                               *)

MaxTrimSide == 3
MaxPadding == 1

\* every raster of w by h pixels
TrimImages(w, h) ==
    {[width |-> w, rows |-> r] : r \in [1..h -> SUBSET (0..(w - 1))]}

TrimInit ==
    /\ \E w \in 1..MaxTrimSide, h \in 1..MaxTrimSide, p \in 0..MaxPadding :
          \E i \in TrimImages(w, h) : fcall = [image |-> i, padding |-> p]
    /\ fret = None
    /\ NoCli
    /\ NoFrame
    /\ NoOutput

TrimCall ==
    /\ fret = None
    /\ "padding" \in DOMAIN fcall
    /\ fret' = Some([box   |-> TrimBox(fcall.image, fcall.padding),
                     image |-> trim_whitespace(fcall.image, fcall.padding)])
    /\ UNCHANGED <<fcall, cliVars, fileVars, outVars>>

SpecTrim == TrimInit /\ [][TrimCall]_vars

----------------------------------------------------------------------------
(* SpecCfg: load_config on user files that set some keys of some sections    *)

ConfigSections == {"pdf", "layout", "detection", "output", "extra"}

\* the dict a user file gives for a section
SectionDicts(key) ==
    CASE key = "pdf"       -> {[dpi |-> 150]}
      [] key = "layout"    -> {[columns |-> 1], [column_gap_ratio |-> 10],
                               [columns |-> 1, column_gap_ratio |-> 10]}
      [] key = "detection" -> {[min_gap_height |-> 1],
                               [whitespace_threshold |-> 200],
                               [min_question_height |-> 50],
                               [min_gap_height |-> 1, min_question_height |-> 50]}
      [] key = "output"    -> {[image_format |-> "jpg"], [image_quality |-> 80]}
      [] key = "extra"     -> {[note |-> 1]}

\* what yaml.safe_load returns for a user file: a dict of some sections
UserFiles ==
    {[key \in S |-> CASE key = "pdf"       -> a
                     [] key = "layout"    -> b
                     [] key = "detection" -> c
                     [] key = "output"    -> d
                     [] key = "extra"     -> e] :
        S \in SUBSET ConfigSections,
        a \in SectionDicts("pdf"), b \in SectionDicts("layout"),
        c \in SectionDicts("detection"), d \in SectionDicts("output"),
        e \in SectionDicts("extra")}

CfgInit ==
    /\ fcall \in {[user_config |-> None]}
                 \cup {[user_config |-> Some(u)] : u \in UserFiles}
    /\ fret = None
    /\ NoCli
    /\ NoFrame
    /\ NoOutput

\* load_config, and the min_question_height process_single_pdf reads from
\* the result
CfgCall ==
    /\ fret = None
    /\ "user_config" \in DOMAIN fcall
    /\ fret' = Some(
          [config |-> load_config(fcall.user_config),
           min_question_height |->
               MinQuestionHeightOf(load_config(fcall.user_config))])
    /\ UNCHANGED <<fcall, cliVars, fileVars, outVars>>

SpecCfg == CfgInit /\ [][CfgCall]_vars

----------------------------------------------------------------------------
(* SpecStitch: process_pages_to_single_image on one or two pages of          *)
(* different sizes, with the page heights process_single_pdf keeps           *)

StitchWidths == {3, 4, 6}
StitchHeights == 1..2
StitchRatios == {0, 5, 50}

\* a pixel row of a page w wide: white, dark at the left edge, dark at the
\* right edge, or dark throughout
StitchRows(w) == {{}, {0}, {w - 1}, 0..(w - 1)}

StitchPages ==
    UNION {{[width |-> w, rows |-> r] : r \in [1..h -> StitchRows(w)]} :
           w \in StitchWidths, h \in StitchHeights}

StitchInit ==
    /\ \E n \in 1..2 : \E pgs \in [1..n -> StitchPages] :
          \E g \in StitchRatios : fcall = [pages |-> pgs, gap_ratio |-> g]
    /\ fret = None
    /\ NoCli
    /\ NoFrame
    /\ NoOutput

\* main.py lines 78-80, and the segment table calculate_original_position
\* builds from the page heights kept there
StitchCall ==
    /\ fret = None
    /\ "pages" \in DOMAIN fcall
    /\ LET all_columns == AllColumns(fcall.pages, fcall.gap_ratio)
           max_width   == SetMax({all_columns[k].width :
                                     k \in 1..Len(all_columns)})
       IN  fret' = Some(
              [all_columns   |-> all_columns,
               offsets       |-> PasteOffsets(all_columns, max_width, 0),
               image         |-> process_pages_to_single_image(
                                     fcall.pages, fcall.gap_ratio),
               column_starts |-> ColumnStarts(PageHeightsOf(fcall.pages),
                                              Len(fcall.pages))])
    /\ UNCHANGED <<fcall, cliVars, fileVars, outVars>>

SpecStitch == StitchInit /\ [][StitchCall]_vars

----------------------------------------------------------------------------
(* SpecSplit: split_columns on bounded pages                                 *)

MaxSplitWidth == 6
SplitHeights == 1..2

\* gap ratios in percent, from 0 to 1
SplitRatios == {0, 5, 25, 33, 50, 75, 100}

SplitInit ==
    /\ \E w \in 1..MaxSplitWidth, h \in SplitHeights, g \in SplitRatios :
          \E r \in [1..h -> SUBSET (0..(w - 1))] :
              fcall = [page |-> [width |-> w, rows |-> r], split_ratio |-> g]
    /\ fret = None
    /\ NoCli
    /\ NoFrame
    /\ NoOutput

SplitCall ==
    /\ fret = None
    /\ "split_ratio" \in DOMAIN fcall
    /\ LET cols == split_columns(fcall.page, fcall.split_ratio)
       IN  fret' = Some([left_col |-> cols[1], right_col |-> cols[2]])
    /\ UNCHANGED <<fcall, cliVars, fileVars, outVars>>

SpecSplit == SplitInit /\ [][SplitCall]_vars

----------------------------------------------------------------------------
(* Properties of calculate_original_position (under SpecPos) *)

PosDone == fret # None /\ "column_starts" \in DOMAIN fret[1]

\* the call as process_single_pdf makes it: num_pages = len(page_heights)
PosOfPages == PosDone /\ fcall.num_pages = Len(fcall.page_heights)

\* the height of the composite of pages with these heights: every page
\* contributes two columns of its own height
TotalHeight(page_heights) == 2 * SumSeq(page_heights)

\* the composite y at which column k (1-based; odd = left) of the page list
\* begins, from the page heights alone
ExpectedStart(page_heights, k) ==
    LET page == (k + 1) \div 2
    IN  2 * SumSeq(SubSeq(page_heights, 1, page - 1))
        + (IF k % 2 = 0 THEN page_heights[page] ELSE 0)

\* C1: for P >= 1 page heights the segment table holds two segments per page,
\* left then right, pages ascending; the first starts at 0, each starts where
\* the previous one ends, no two overlap, the last ends at total_height, and
\* every y of [0,total_height) lies in exactly one segment.
C1_SegmentsPartition ==
    PosOfPages =>
        LET t     == fret[1].column_starts
            P     == fcall.num_pages
            total == TotalHeight(fcall.page_heights)
        IN  /\ Len(t) = 2 * P
            /\ \A p \in 1..P :
                  /\ t[2 * p - 1].page = p /\ t[2 * p - 1].column = "left"
                  /\ t[2 * p].page = p /\ t[2 * p].column = "right"
            /\ t[1].start = 0
            /\ \A k \in 2..(2 * P) : t[k].start = t[k - 1].end
            /\ \A i \in 1..(2 * P) : \A j \in 1..(2 * P) :
                  i < j => t[i].end <= t[j].start
            /\ t[2 * P].end = total
            /\ \A y \in 0..(total - 1) :
                  Cardinality({k \in 1..(2 * P) :
                                 t[k].start <= y /\ y < t[k].end}) = 1

\* three pages of different heights have been laid out
C1_Witness ==
    /\ PosOfPages
    /\ fcall.page_heights = <<1, 3, 2>>
    /\ Len(fret[1].column_starts) = 6

\* C2: for every composite y inside a segment, the result is that segment's
\* page (1-based) and column, and y_in_column = y - start of the segment.
C2_InverseMapping ==
    PosOfPages =>
        \A k \in 1..(2 * fcall.num_pages) :
            LET page   == (k + 1) \div 2
                start  == ExpectedStart(fcall.page_heights, k)
                end    == start + fcall.page_heights[page]
                y      == fcall.y_in_stitched
            IN  (start <= y /\ y < end) =>
                    fret[1].result =
                        [page |-> page,
                         column |-> IF k % 2 = 0 THEN "right" ELSE "left",
                         y_in_column |-> y - start]

\* a y in the right column of the second page, one row below its top
C2_Witness ==
    /\ PosOfPages
    /\ fcall.page_heights = <<2, 3>>
    /\ fcall.y_in_stitched = 8
    /\ fret[1].result = [page |-> 2, column |-> "right", y_in_column |-> 1]

----------------------------------------------------------------------------
(* Properties of the number validation (under SpecNum) *)

NumDone == fret # None /\ "number" \in DOMAIN fret[1]

\* the first contiguous digit run of a text, whatever its length
MatchWholeRun(text) ==
    LET i == FirstDigitFrom(text, 1)
    IN  IF i = 0 THEN None
        ELSE Some(SubSeq(text, i, i + DigitsAt(text, i, Len(text)) - 1))

\* the number the validation rule of the documentation yields for a text:
\* the value of the first contiguous digit run if it is in 1..999
DocumentedNumber(recognized) ==
    LET digit_run == MatchWholeRun(recognized)
    IN  IF digit_run = None THEN None
        ELSE IF ParseInt(digit_run[1]) \in 1..999
             THEN Some(ParseInt(digit_run[1]))
             ELSE None

\* C3: the result is the integer value of the first contiguous digit run of
\* the recognized text if that value is in [1,999], and None otherwise
\* ("007" gives 7, "999" gives 999; 0, 1000 and no digits give None).
C3_FirstDigitRunValidated ==
    NumDone =>
        LET r == RecognizeText(fcall.ocr)
        IN  fret[1].number =
                (IF r.text = None THEN None ELSE DocumentedNumber(r.text[1]))

----------------------------------------------------------------------------
(* Properties of the pipeline and the CLI (under Spec) *)

InLoop == ppc \in {"loop", "branch"}
InProgress == ppc \in {"convert", "stitch", "detect", "loop", "branch"}

\* the regions of the file decided so far, and those of them whose number
\* extraction returned a value, in order
Decided == ridx - 1
HasNumber(k) == extract_question_number_from_top_left(recog[k]) # None
Numbered == SelectSeq([k \in 1..Decided |-> k], HasNumber)

RecordsInRange(qs) == \A i \in 1..Len(qs) : qs[i].number \in 1..999

\* C4: a record is created only for a region whose number extraction returned
\* a value; every record of the OutputManager and of a written manifest has an
\* integer number in [1,999]; the record count is the number of detected
\* regions minus the number of discarded ones.
C4_RecordsOnlyForNumbered ==
    /\ RecordsInRange(questions)
    /\ manifest # None => RecordsInRange(manifest[1].questions)
    /\ (InLoop \/ ppc = "returned") =>
          /\ Len(questions) = Decided - skipped_count
          /\ Len(questions) = Len(Numbered)
          /\ \A i \in 1..Len(questions) :
                /\ Some(questions[i].number) =
                      extract_question_number_from_top_left(recog[Numbered[i]])
                /\ questions[i].bbox = detected_questions[Numbered[i]].bbox
    /\ ppc = "returned" =>
          /\ manifest[1].total_questions =
                Len(detected_questions) - skipped_count
          /\ Len(manifest[1].questions) =
                Len(detected_questions) - skipped_count

\* a finished file with a numbered region, a discarded one and its manifest
C4_Witness ==
    /\ ppc = "returned"
    /\ skipped_count >= 1
    /\ Len(questions) >= 1
    /\ manifest[1].total_questions = Len(detected_questions) - skipped_count

ColumnRank(column) == IF column = "left" THEN 1 ELSE 2

\* C5: the i-th record added has id q{i:03d}: ids are unique, 1-based and
\* consecutive (a discarded region consumes none), and they are assigned in
\* ascending composite bbox.y, which is page-major, left before right, top to
\* bottom.
C5_IdsConsecutiveInDiscoveryOrder ==
    /\ \A i \in 1..Len(questions) :
          LET id == questions[i].id
          IN  /\ Len(id) = 4
              /\ id[1] = "q"
              /\ \A k \in 2..4 : id[k] \in Digits
              /\ ParseInt(SubSeq(id, 2, 4)) = i
    /\ \A i \in 1..Len(questions) : \A j \in 1..Len(questions) :
          i < j =>
              /\ questions[i].id # questions[j].id
              /\ questions[i].bbox.y < questions[j].bbox.y
              /\ questions[i].source_pages[1] <= questions[j].source_pages[1]
              /\ questions[i].source_pages[1] = questions[j].source_pages[1] =>
                    ColumnRank(questions[i].column)
                        <= ColumnRank(questions[j].column)

\* two records on different pages with a discarded region in the file
C5_Witness ==
    /\ Len(questions) >= 2
    /\ skipped_count >= 1
    /\ questions[1].source_pages = <<1>>
    /\ questions[2].source_pages = <<2>>
    /\ questions[2].id = <<"q", "0", "0", "2">>

SecondRunWrote == run = 2 /\ manifest_writes = 1

\* C6: two runs on identical PDF bytes with identical configuration and
\* recognition results produce a byte-identical manifest.
C6_ByteIdenticalManifest ==
    SecondRunWrote => manifest = first_manifest

\* C6 as amended: the two manifests agree in source_pdf, total_questions and
\* the question records (ids included); processed_at, the time of the write,
\* may differ.
C6_IdenticalApartFromTime ==
    SecondRunWrote =>
        /\ manifest[1].source_pdf = first_manifest[1].source_pdf
        /\ manifest[1].total_questions = first_manifest[1].total_questions
        /\ manifest[1].questions = first_manifest[1].questions

\* the second run wrote two records at a later clock reading than the first
C6_Witness ==
    /\ SecondRunWrote
    /\ Len(manifest[1].questions) >= 2
    /\ manifest[1].processed_at # first_manifest[1].processed_at

\* metadata.json as it was when this run started
ManifestAtStart == IF run = 2 THEN first_manifest ELSE None

\* C7: a run that fails before all regions of the file are resolved performs
\* no write of metadata.json; no write happens while a region is unprocessed.
C7_NoManifestOnFailure ==
    /\ ppc = "raised" => manifest_writes = 0 /\ manifest = ManifestAtStart
    /\ InProgress => manifest_writes = 0 /\ manifest = ManifestAtStart
    /\ manifest_writes > 0 => ridx > Len(detected_questions) \/ ppc = "idle"

\* the run failed after it had saved the image of a region
C7_Witness ==
    /\ ppc = "raised"
    /\ Len(images) >= 1
    /\ manifest_writes = 0

\* C8: in a successful run the manifest is written exactly once, after the
\* last add_question; its total_questions is the length of its questions
\* list, which is the number of question images written in the run.
C8_OneManifestPerRun ==
    /\ manifest_writes <= 1
    /\ ppc = "returned" =>
          /\ manifest_writes = 1
          /\ manifest[1].questions = questions
          /\ manifest[1].total_questions = Len(manifest[1].questions)
          /\ Len(manifest[1].questions) = Len(images)
          /\ Cardinality({images[i] : i \in 1..Len(images)}) = Len(images)
    /\ (mpc = "exited" /\ exit_code = Some(0) /\ args.input = "file") =>
          /\ manifest_writes = 1
          /\ manifest[1].questions = questions
          /\ manifest[1].total_questions = Len(images)

\* a successful run that wrote three question images
C8_Witness ==
    /\ ppc = "returned"
    /\ manifest_writes = 1
    /\ Len(images) = 3
    /\ manifest[1].total_questions = 3

\* C9: process_batch records an exception of one PDF as {file, status:
\* "error", error} and goes on: one entry per PDF found, in iteration order,
\* each "success" or "error", every file attempted, and the exit code is not
\* changed by such errors.
C9_BatchContinuesAfterError ==
    /\ mpc = "batch" =>
          /\ Len(results) = file_idx - 1
          /\ attempted = (IF ppc = "idle" THEN file_idx - 1 ELSE file_idx)
          /\ exit_code = None
    /\ \A i \in 1..Len(results) :
          /\ results[i].file = i
          /\ results[i].status \in {"success", "error"}
          /\ results[i].status = "error" =>
                DOMAIN results[i] = {"file", "status", "error"}
    /\ (mpc = "exited" /\ args.input = "dir" /\ args.config_file.readable) =>
          /\ Len(results) = pdf_files
          /\ attempted = pdf_files
          /\ exit_code = Some(0)

\* the first file of a batch failed and the second one succeeded
C9_Witness ==
    /\ mpc = "exited"
    /\ args.input = "dir"
    /\ Len(results) = 2
    /\ results[1].status = "error"
    /\ results[2].status = "success"
    /\ exit_code = Some(0)

\* C10: the process exits with code 1 only if the input path is missing.
C10_ExitOneOnlyIfMissing ==
    exit_code = Some(1) => args.input = "missing"

\* C10 as amended: the process exits with code 1 only if the input path is
\* missing, or --batch is given with a path that is not a directory, or an
\* exception leaves main (the configuration cannot be loaded, or
\* process_single_pdf raises in single-file mode); a batch over a directory
\* never exits with code 1.
C10_ExitOneCauses ==
    exit_code = Some(1) =>
        \/ args.input = "missing"
        \/ args.input = "file" /\ args.batch
        \/ ~args.config_file.readable
        \/ args.input = "file" /\ ~args.batch /\ ppc = "raised"

\* a single-file run on an existing file raised after it had saved an image,
\* and the process has exited with code 1
C10_Witness ==
    /\ mpc = "exited"
    /\ exit_code = Some(1)
    /\ args.input = "file"
    /\ ~args.batch
    /\ args.config_file.readable
    /\ ppc = "raised"
    /\ Len(images) >= 1

\* C11: a region without a number is discarded and nothing else: the loop
\* moves on to the next region with one more discard counted and nothing
\* stored or raised; a file whose regions were all discarded returns with a
\* manifest of total_questions = 0, and a batch records it as a success.
C11_DiscardIsNotAFailure ==
    /\ [](ppc = "returned" /\ skipped_count = Len(detected_questions)
            => /\ manifest_writes = 1
               /\ manifest # None
               /\ manifest[1].total_questions = 0
               /\ manifest[1].questions = <<>>)
    /\ [][/\ (ppc = "branch" /\ question_number = None)
              => /\ ppc' = "loop"
                 /\ ridx' = ridx + 1
                 /\ skipped_count' = skipped_count + 1
                 /\ UNCHANGED <<cliVars, outVars>>
          /\ (mpc = "batch" /\ ppc = "returned")
              => results' = Append(results,
                                   [file |-> file_idx, status |-> "success",
                                    total_questions |-> Len(questions)])]_vars

\* a file of a batch had two regions, both discarded, and has returned with
\* an empty manifest
C11_Witness ==
    /\ mpc = "batch"
    /\ ppc = "returned"
    /\ Len(detected_questions) >= 2
    /\ skipped_count = Len(detected_questions)
    /\ manifest # None
    /\ manifest[1].total_questions = 0

LayoutOf(p) == CHOOSE l \in Layouts : LabelledPage(l) = p[1]

\* the band is a gap and the regions are tall enough to be kept
LayoutDetectable ==
    LET l == LayoutOf(pdf)
        g == config[1].detection.min_gap_height
    IN  /\ l.band >= g
        /\ l.region > g
        /\ l.region >= MinQuestionHeightOf(config[1])

\* page and side of the n-th region in reading order, two regions a column
TruePage(n) == ((n - 1) \div 4) + 1
TrueSide(n) == IF ((n - 1) \div 2) % 2 = 0 THEN "left" ELSE "right"

\* the records are those of the regions with the given labels, in this order
RecordsOfLabels(labels) ==
    /\ Len(questions) = Len(labels)
    /\ \A k \in 1..Len(labels) :
          /\ k <= Len(questions)
          /\ questions[k].number = labels[k]
          /\ questions[k].id = QuestionId(k)
          /\ questions[k].source_pages = <<TruePage(labels[k])>>
          /\ questions[k].column = TrueSide(labels[k])

GapDone == fret # None /\ "min_gap_height" \in DOMAIN fcall

\* the image is a non-white band of a rows (each less than 95% white), a
\* solid-white band of h rows and a non-white band of c rows
IsBands(image, a, h, c) ==
    /\ Height(image) = a + h + c
    /\ \A k \in 1..Height(image) :
          IF a < k /\ k <= a + h THEN image.rows[k] = {} ELSE ~IsGapRow(image, k)

BandTriples(image) ==
    {t \in (1..Height(image)) \X (1..Height(image)) \X (1..Height(image)) :
        IsBands(image, t[1], t[2], t[3])}

WholeImage(image) == <<BoundingBox(0, 0, image.width, Height(image))>>

\* C13: a white band of h rows between two non-white bands gives exactly one
\* gap and two regions when h >= min_gap_height, and no gap and the whole
\* composite as one region when h < min_gap_height.
C13_GapThreshold ==
    GapDone =>
        \A t \in BandTriples(fcall.image) :
            IF t[2] >= fcall.min_gap_height
            THEN Len(fret[1].gaps) = 1 /\ Len(fret[1].boundaries) = 2
            ELSE fret[1].gaps = <<>>
                 /\ fret[1].boundaries = WholeImage(fcall.image)

\* C13 as amended: when h >= min_gap_height there is exactly one gap, the
\* white band, and one region for each non-white band that is taller than
\* min_gap_height (two regions only if both are); when h < min_gap_height
\* there is no gap and the whole composite is one region.
C13_GapThresholdTallBands ==
    GapDone =>
        \A t \in BandTriples(fcall.image) :
            LET a == t[1]
                h == t[2]
                c == t[3]
                g == fcall.min_gap_height
                w == fcall.image.width
            IN  IF h >= g
                THEN /\ fret[1].gaps = <<<<a, a + h>>>>
                     /\ fret[1].boundaries =
                           (IF a > g THEN <<BoundingBox(0, 0, w, a)>> ELSE <<>>)
                           \o (IF c > g THEN <<BoundingBox(0, a + h, w, c)>>
                                        ELSE <<>>)
                ELSE fret[1].gaps = <<>>
                     /\ fret[1].boundaries = WholeImage(fcall.image)

\* a white band of exactly min_gap_height rows between two taller bands was
\* found as one gap between two regions
C13_Witness ==
    /\ GapDone
    /\ \E t \in BandTriples(fcall.image) :
          /\ t[2] = fcall.min_gap_height
          /\ t[1] > fcall.min_gap_height
          /\ t[3] > fcall.min_gap_height
    /\ Len(fret[1].gaps) = 1
    /\ Len(fret[1].boundaries) = 2

\* the maximal runs of consecutive gap rows, as half-open intervals
MaximalGapRuns(image) ==
    {r \in (0..Height(image)) \X (0..Height(image)) :
        /\ r[1] < r[2]
        /\ \A y \in r[1]..(r[2] - 1) : IsGapRow(image, y + 1)
        /\ r[1] = 0 \/ ~IsGapRow(image, r[1])
        /\ r[2] = Height(image) \/ ~IsGapRow(image, r[2] + 1)}

\* C17: detect_horizontal_gaps returns exactly the maximal runs of gap rows
\* that are at least min_gap_height long, as half-open intervals in ascending
\* order; a run that reaches the last row ends at the image height.
C17_GapsAreLongMaximalRuns ==
    GapDone =>
        LET gaps == fret[1].gaps
        IN  /\ {gaps[i] : i \in 1..Len(gaps)} =
                  {r \in MaximalGapRuns(fcall.image) :
                      r[2] - r[1] >= fcall.min_gap_height}
            /\ \A i \in 1..(Len(gaps) - 1) : gaps[i][2] < gaps[i + 1][1]

\* two gaps were returned, the last one up to the image height, and a
\* shorter run of gap rows was left out
C17_Witness ==
    /\ GapDone
    /\ Len(fret[1].gaps) = 2
    /\ fret[1].gaps[2][2] = Height(fcall.image)
    /\ \E r \in MaximalGapRuns(fcall.image) :
          r[2] - r[1] < fcall.min_gap_height

\* the spans left by the gaps: before the first, between consecutive ones,
\* after the last
ComplementSpans(gaps, height) ==
    [i \in 1..(Len(gaps) + 1) |->
        <<IF i = 1 THEN 0 ELSE gaps[i - 1][2],
          IF i = Len(gaps) + 1 THEN height ELSE gaps[i][1]>>]

SpanLength(span) == span[2] - span[1]

\* C18: with at least one gap, find_question_boundaries returns exactly the
\* complement spans of the gaps, in order, a span being kept if and only if
\* it is strictly longer than min_gap_height.
C18_RegionsAreLongComplementSpans ==
    GapDone /\ fret[1].gaps # <<>> =>
        LET spans == ComplementSpans(fret[1].gaps, Height(fcall.image))
            kept  == SelectSeq(spans,
                               LAMBDA sp : SpanLength(sp) > fcall.min_gap_height)
            found == fret[1].boundaries
        IN  [k \in 1..Len(found) |-> <<found[k].y, found[k].y + found[k].height>>]
                = kept

\* with two gaps, a span of exactly min_gap_height rows was dropped and a
\* longer one kept
C18_Witness ==
    /\ GapDone
    /\ Len(fret[1].gaps) = 2
    /\ fcall.min_gap_height >= 1
    /\ \E i \in 1..3 :
          SpanLength(ComplementSpans(fret[1].gaps, Height(fcall.image))[i])
              = fcall.min_gap_height
    /\ Len(fret[1].boundaries) >= 1

\* C19: when no gap is detected, find_question_boundaries returns exactly
\* one region, with y = 0 and the height of the composite, whatever
\* min_gap_height is.
C19_NoGapWholeComposite ==
    GapDone /\ fret[1].gaps = <<>> =>
        /\ Len(fret[1].boundaries) = 1
        /\ fret[1].boundaries[1].y = 0
        /\ fret[1].boundaries[1].height = Height(fcall.image)

\* an image no taller than min_gap_height, without a gap, came back as one
\* region
C19_Witness ==
    /\ GapDone
    /\ fret[1].gaps = <<>>
    /\ Height(fcall.image) <= fcall.min_gap_height
    /\ Len(fret[1].boundaries) = 1
    /\ fret[1].boundaries[1].height = Height(fcall.image)

\* C20: every region returned by find_question_boundaries is as wide as the
\* composite (x = 0, width = composite width), lies inside it
\* (0 <= y, y + height <= composite height) and has height > 0.
C20_RegionsFullWidthInside ==
    GapDone =>
        \A k \in 1..Len(fret[1].boundaries) :
            LET b == fret[1].boundaries[k]
            IN  /\ b.x = 0
                /\ b.width = fcall.image.width
                /\ 0 <= b.y
                /\ b.y + b.height <= Height(fcall.image)
                /\ b.height > 0

\* two regions around a gap, the second one down to the last row
C20_Witness ==
    /\ GapDone
    /\ Len(fret[1].gaps) = 1
    /\ Len(fret[1].boundaries) = 2
    /\ fret[1].boundaries[2].y > 0
    /\ fret[1].boundaries[2].y + fret[1].boundaries[2].height
          = Height(fcall.image)

TrimDone == fret # None /\ "padding" \in DOMAIN fcall

\* the non-white pixels of an image, as (x, y) with y counted from 0
DarkPixels(image) ==
    {q \in (0..(image.width - 1)) \X (0..(Height(image) - 1)) :
        q[1] \in image.rows[q[2] + 1]}

\* C14: for an image whose only non-white pixel is (px, py), trim_whitespace
\* with padding p crops x to [max(0, px-p), min(W, px+p+1)) and y to
\* [max(0, py-p), min(H, py+p+1)); the crop contains the pixel and lies
\* inside the image.
C14_SinglePixelCrop ==
    TrimDone =>
        \A q \in DarkPixels(fcall.image) :
            DarkPixels(fcall.image) = {q} =>
                LET px  == q[1]
                    py  == q[2]
                    pad == fcall.padding
                    W   == fcall.image.width
                    H   == Height(fcall.image)
                    x0  == Max(0, px - pad)
                    y0  == Max(0, py - pad)
                    x1  == Min(W, px + pad + 1)
                    y1  == Min(H, py + pad + 1)
                IN  /\ fret[1].box = Some(<<x0, y0, x1, y1>>)
                    /\ fret[1].image.width = x1 - x0
                    /\ Height(fret[1].image) = y1 - y0
                    /\ 0 <= x0 /\ x0 <= px /\ px < x1 /\ x1 <= W
                    /\ 0 <= y0 /\ y0 <= py /\ py < y1 /\ y1 <= H
                    /\ DarkPixels(fret[1].image) = {<<px - x0, py - y0>>}

\* a single pixel in the first column of a wider and taller image was
\* trimmed with padding 1: the box is clamped on the left and smaller than
\* the image
C14_Witness ==
    /\ TrimDone
    /\ fcall.padding = 1
    /\ \E py \in 0..(Height(fcall.image) - 1) :
          DarkPixels(fcall.image) = {<<0, py>>}
    /\ fret[1].box # None
    /\ fret[1].box[1][1] = 0
    /\ fret[1].box[1][3] = 2
    /\ fret[1].image.width < fcall.image.width

\* the region of a boundary as detect_questions crops and trims it
TrimmedRegion(image, bbox) ==
    trim_whitespace(Crop(image, bbox.x, bbox.y,
                         bbox.x + bbox.width, bbox.y + bbox.height),
                    DefaultPadding)

\* the boundaries of the composite that are tall enough before and after
\* trimming
TallEnough(image, cfg) ==
    LET bs == find_question_boundaries(image, cfg.detection.min_gap_height)
    IN  SelectSeq(bs, LAMBDA b :
            /\ b.height >= MinQuestionHeightOf(cfg)
            /\ Height(TrimmedRegion(image, b)) >= MinQuestionHeightOf(cfg))

\* C15: detect_questions returns only regions whose height is at least
\* min_question_height before and after trimming, and the number extractor is
\* called on returned regions only, once each: no recognition call is made
\* for a region whose trimmed height is below min_question_height.
C15_NoRecognitionForShortRegions ==
    ppc \in {"loop", "branch", "returned"} =>
        /\ \A k \in 1..Len(detected_questions) :
              /\ detected_questions[k].bbox.height
                    >= MinQuestionHeightOf(config[1])
              /\ Height(detected_questions[k].image)
                    >= MinQuestionHeightOf(config[1])
        /\ [k \in 1..Len(detected_questions) |-> detected_questions[k].bbox]
              = TallEnough(stitched_image, config[1])
        /\ ridx \in 1..(Len(detected_questions) + 1)
        /\ ppc = "branch" => ridx <= Len(detected_questions)
        /\ Len(recog) = IF ppc = "branch" THEN ridx ELSE ridx - 1
        /\ ppc = "returned" => ridx = Len(detected_questions) + 1

\* a region tall enough before trimming and too short after it was left out,
\* and the run returned without a recognition call
C15_Witness ==
    /\ ppc = "returned"
    /\ pdf \in TallPdfs
    /\ \E b \in {find_question_boundaries(
                     stitched_image, config[1].detection.min_gap_height)[1]} :
          /\ b.height >= MinQuestionHeightOf(config[1])
          /\ Height(TrimmedRegion(stitched_image, b))
                < MinQuestionHeightOf(config[1])
    /\ detected_questions = <<>>
    /\ recog = <<>>

CfgDone == fret # None /\ "user_config" \in DOMAIN fcall

\* the documented defaults (column_gap_ratio 0.05 is 5 percent)
DocumentedDefaults ==
    [pdf       |-> [dpi |-> 300],
     layout    |-> [columns |-> 2, column_gap_ratio |-> 5],
     detection |-> [min_gap_height |-> 30, whitespace_threshold |-> 250]]

\* the user file sets this key of this section
UserSets(section, key) ==
    /\ fcall.user_config # None
    /\ section \in DOMAIN fcall.user_config[1]
    /\ key \in DOMAIN fcall.user_config[1][section]

C21_BeyondTheEndIsLastColumn ==
    PosOfPages /\ fcall.y_in_stitched >= TotalHeight(fcall.page_heights) =>
        LET P     == fcall.num_pages
            start == ExpectedStart(fcall.page_heights, 2 * P)
        IN  /\ fret[1].result =
                  [page |-> P, column |-> "right",
                   y_in_column |-> fcall.y_in_stitched - start]
            /\ fret[1].result.y_in_column >= fcall.page_heights[P]

\* two pages of heights 2 and 3 make a composite of 10 rows; y = 11 is
\* mapped to row 4 of the right column of page 2, which has 3 rows
C21_Witness ==
    /\ PosOfPages
    /\ fcall.page_heights = <<2, 3>>
    /\ fcall.y_in_stitched = 11
    /\ fret[1].result = [page |-> 2, column |-> "right", y_in_column |-> 4]

StitchDone == fret # None /\ "all_columns" \in DOMAIN fret[1]

\* the x range of the page that split_columns gives to column k of the
\* list (odd k: left column)
ColumnRange(page, gap_ratio, k) ==
    LET g   == (page.width * gap_ratio) \div 100
        mid == page.width \div 2
    IN  IF k % 2 = 1 THEN <<0, mid - g \div 2>> ELSE <<mid + g \div 2, page.width>>

\* C22: the columns are appended as page1-left, page1-right, page2-left, ...;
\* column k is pasted at y offset = the sum of the heights of the columns
\* before it and at x offset = (max_width - its width) div 2; the composite
\* is as wide as the widest column and as high as all columns together, and
\* it is white wherever no column pixel was pasted.
C22_ColumnsPastedInOrder ==
    StitchDone =>
        LET cols    == fret[1].all_columns
            offs    == fret[1].offsets
            image   == fret[1].image
            heights == [k \in 1..Len(cols) |-> Height(cols[k])]
            maxw    == SetMax({cols[k].width : k \in 1..Len(cols)})
        IN  /\ Len(cols) = 2 * Len(fcall.pages)
            /\ Len(offs) = Len(cols)
            /\ \A k \in 1..Len(cols) :
                  LET page == fcall.pages[(k + 1) \div 2]
                      xr   == ColumnRange(page, fcall.gap_ratio, k)
                  IN  /\ cols[k] = Crop(page, xr[1], 0, xr[2], Height(page))
                      /\ offs[k].y_offset = SumSeq(SubSeq(heights, 1, k - 1))
                      /\ offs[k].x_offset = (maxw - cols[k].width) \div 2
                      /\ \A j \in 1..heights[k] :
                            image.rows[offs[k].y_offset + j] =
                                {x + offs[k].x_offset : x \in cols[k].rows[j]}
            /\ image.width = maxw
            /\ Height(image) = SumSeq(heights)

\* two pages of different widths: the columns of the narrow page are pasted
\* under those of the wide page, shifted to the centre
C22_Witness ==
    /\ StitchDone
    /\ Len(fcall.pages) = 2
    /\ fcall.pages[1].width = 6
    /\ fcall.pages[2].width = 3
    /\ fret[1].offsets[3].x_offset > 0
    /\ fret[1].offsets[3].y_offset = 2 * Height(fcall.pages[1])
    /\ fret[1].all_columns[3].rows[1] # {}

\* C27: the segment table calculate_original_position builds from the page
\* heights and len(pages) describes the columns as stitch_vertically pasted
\* them: segment k is page (k+1) div 2, left for odd k and right for even k,
\* starts at the y offset of column k and ends at that offset plus the
\* height of the column; the last segment ends at the composite height.
C27_SegmentTableMatchesPaste ==
    StitchDone =>
        LET t    == fret[1].column_starts
            cols == fret[1].all_columns
            offs == fret[1].offsets
        IN  /\ Len(t) = Len(cols)
            /\ \A k \in 1..Len(cols) :
                  /\ k <= Len(t)
                  /\ t[k].page = (k + 1) \div 2
                  /\ t[k].column = IF k % 2 = 1 THEN "left" ELSE "right"
                  /\ t[k].start = offs[k].y_offset
                  /\ t[k].end = offs[k].y_offset + Height(cols[k])
            /\ t[Len(t)].end = Height(fret[1].image)

\* two pages of different heights: the left column of page 2 was pasted at
\* twice the height of page 1, where segment 3 starts
C27_Witness ==
    /\ StitchDone
    /\ Len(fcall.pages) = 2
    /\ Height(fcall.pages[1]) = 2
    /\ Height(fcall.pages[2]) = 1
    /\ fret[1].offsets[3].y_offset = 4
    /\ fret[1].column_starts[3] =
          [start |-> 4, end |-> 5, page |-> 2, column |-> "left"]

\* C23: trim_whitespace returns an image without a non-white pixel unchanged;
\* otherwise the crop is at least 1 by 1, lies inside the input and contains
\* every non-white pixel of the input.
C23_TrimNeverEmpty ==
    TrimDone =>
        IF DarkPixels(fcall.image) = {}
        THEN fret[1].box = None /\ fret[1].image = fcall.image
        ELSE LET box == fret[1].box[1]
             IN  /\ fret[1].box # None
                 /\ 0 <= box[1] /\ box[1] < box[3]
                 /\ box[3] <= fcall.image.width
                 /\ 0 <= box[2] /\ box[2] < box[4]
                 /\ box[4] <= Height(fcall.image)
                 /\ fret[1].image.width = box[3] - box[1]
                 /\ fret[1].image.width >= 1
                 /\ Height(fret[1].image) = box[4] - box[2]
                 /\ Height(fret[1].image) >= 1
                 /\ \A q \in DarkPixels(fcall.image) :
                       /\ box[1] <= q[1] /\ q[1] < box[3]
                       /\ box[2] <= q[2] /\ q[2] < box[4]
                 /\ DarkPixels(fret[1].image) =
                       {<<q[1] - box[1], q[2] - box[2]>> :
                           q \in DarkPixels(fcall.image)}

\* an image with two non-white pixels in its upper left part was cropped
\* with padding 0 to the box around them, smaller than the image
C23_Witness ==
    /\ TrimDone
    /\ fcall.padding = 0
    /\ DarkPixels(fcall.image) = {<<0, 0>>, <<1, 1>>}
    /\ fcall.image.width = 3
    /\ Height(fcall.image) = 3
    /\ fret[1].image.width = 2
    /\ Height(fret[1].image) = 2

\* C24: the digit-constrained call is made first; the unconstrained call is
\* made, once, exactly when the first call raised; when both raise the
\* result is None; at most two calls are made.
C24_AtMostTwoRecognitionCalls ==
    NumDone =>
        /\ fret[1].calls =
              IF fcall.ocr.first.raised THEN <<"digits", "plain">>
                                        ELSE <<"digits">>
        /\ Len(fret[1].calls) <= 2
        /\ fcall.ocr.first.raised /\ fcall.ocr.second.raised
              => fret[1].number = None
        /\ fret[1].number = None \/ fret[1].number \in {<<n>> : n \in 1..999}

\* the first call returned an empty text while the unconstrained call would
\* have read "7": one call was made and there is no number
C24_Witness ==
    /\ NumDone
    /\ fcall.ocr.first = Returns(<<>>)
    /\ fcall.ocr.second = Returns(<<"7">>)
    /\ fret[1].calls = <<"digits">>
    /\ fret[1].number = None

SplitDone == fret # None /\ "left_col" \in DOMAIN fret[1]

\* the pixels of an image whose x lies in [x0, x1), with x counted from x0
PixelsIn(image, x0, x1) ==
    {<<q[1] - x0, q[2]>> : q \in {d \in DarkPixels(image) :
                                     x0 <= d[1] /\ d[1] < x1}}

\* C25: with mid = w div 2 and g = floor(w * gap_ratio), the left column is
\* the page at x in [0, mid - g div 2) and the right column the page at x in
\* [mid + g div 2, w); the ranges are disjoint and inside [0, w], both
\* columns have the height of the page, and exactly the 2 * (g div 2) pixel
\* columns between them belong to neither.
C25_SplitRanges ==
    SplitDone =>
        LET w     == fcall.page.width
            g     == (w * fcall.split_ratio) \div 100
            mid   == w \div 2
            lend  == mid - g \div 2
            rbeg  == mid + g \div 2
            left  == fret[1].left_col
            right == fret[1].right_col
        IN  /\ 0 <= lend /\ lend <= rbeg /\ rbeg <= w
            /\ left.width = lend
            /\ right.width = w - rbeg
            /\ Height(left) = Height(fcall.page)
            /\ Height(right) = Height(fcall.page)
            /\ DarkPixels(left) = PixelsIn(fcall.page, 0, lend)
            /\ DarkPixels(right) = PixelsIn(fcall.page, rbeg, w)
            /\ w - left.width - right.width = 2 * (g \div 2)

\* a page 6 wide split with a gap ratio of 50%: columns of 2 pixels, the
\* two middle pixel columns dropped although they hold ink
C25_Witness ==
    /\ SplitDone
    /\ fcall.page.width = 6
    /\ fcall.split_ratio = 50
    /\ fret[1].left_col.width = 2
    /\ fret[1].right_col.width = 2
    /\ 2 \in fcall.page.rows[1]
    /\ 5 \in fcall.page.rows[1]
    /\ fret[1].right_col.rows[1] = {1}

\* the column (counted from 0) of the pages whose rows of the composite
\* include y
ColumnOfRow(pgs, y) ==
    CHOOSE c \in 0..(2 * Len(pgs) - 1) :
        /\ ColumnTop(pgs, c) <= y
        /\ y < ColumnTop(pgs, c) + Height(pgs[c \div 2 + 1])

\* C26: every record names the page and side of the segment that contains
\* the top edge bbox.y of its untrimmed region, as a one-element list and a
\* side, also when the region reaches into the next column or page.
C26_ProvenanceOfTopEdge ==
    ppc \in {"loop", "branch", "returned"} =>
        \A k \in 1..Len(questions) :
            LET c == ColumnOfRow(pages, questions[k].bbox.y)
            IN  /\ questions[k].source_pages = <<c \div 2 + 1>>
                /\ questions[k].column = IF c % 2 = 0 THEN "left" ELSE "right"
                /\ \E i \in 1..Len(detected_questions) :
                      questions[k].bbox = detected_questions[i].bbox

\* a record of page 1, right column, whose region reaches into the left
\* column of page 2
C26_Witness ==
    /\ ppc = "returned"
    /\ pdf \in LabelledPdfs
    /\ \E k \in 1..Len(questions) :
          /\ questions[k].source_pages = <<1>>
          /\ questions[k].column = "right"
          /\ questions[k].bbox.y + questions[k].bbox.height
                > ColumnTop(pages, 2)

\* C28: the regions are in strictly ascending y order and do not overlap;
\* none contains a row of a detected gap; a region that does not start at
\* y = 0 starts on a non-gap row right after a gap, and a region that does
\* not end at the image bottom is followed by a gap row.
C28_RegionsOrderedBetweenGaps ==
    GapDone =>
        LET bs   == fret[1].boundaries
            gaps == fret[1].gaps
            H    == Height(fcall.image)
        IN  /\ \A k \in 1..(Len(bs) - 1) :
                  /\ bs[k].y < bs[k + 1].y
                  /\ bs[k].y + bs[k].height <= bs[k + 1].y
            /\ \A k \in 1..Len(bs) : \A i \in 1..Len(gaps) :
                  \A y \in gaps[i][1]..(gaps[i][2] - 1) :
                      ~(bs[k].y <= y /\ y < bs[k].y + bs[k].height)
            /\ \A k \in 1..Len(bs) :
                  /\ bs[k].y # 0 =>
                        /\ ~IsGapRow(fcall.image, bs[k].y + 1)
                        /\ \E i \in 1..Len(gaps) : gaps[i][2] = bs[k].y
                  /\ bs[k].y + bs[k].height # H =>
                        IsGapRow(fcall.image, bs[k].y + bs[k].height + 1)

\* three regions around two gaps: the middle one starts right after the
\* first gap and ends right before the second
C28_Witness ==
    /\ GapDone
    /\ Len(fret[1].gaps) = 2
    /\ Len(fret[1].boundaries) = 3
    /\ fret[1].boundaries[2].y = fret[1].gaps[1][2]
    /\ fret[1].boundaries[2].y + fret[1].boundaries[2].height
          = fret[1].gaps[2][1]

\* C29: each pair returned by detect_questions holds the untrimmed,
\* full-width rectangle of the composite as bbox and the trimmed crop of it
\* as image, with min_question_height <= image height <= bbox.height and
\* 1 <= image width <= bbox.width; the records and the manifest hold that
\* untrimmed bbox.
C29_BboxUntrimmedImageTrimmed ==
    ppc \in {"loop", "branch", "returned"} =>
        /\ \A k \in 1..Len(detected_questions) :
              LET d == detected_questions[k]
              IN  /\ d.bbox.x = 0
                  /\ d.bbox.width = stitched_image.width
                  /\ 0 <= d.bbox.y
                  /\ d.bbox.y + d.bbox.height <= Height(stitched_image)
                  /\ d.image = TrimmedRegion(stitched_image, d.bbox)
                  /\ MinQuestionHeightOf(config[1]) <= Height(d.image)
                  /\ Height(d.image) <= d.bbox.height
                  /\ 1 <= d.image.width
                  /\ d.image.width <= d.bbox.width
        /\ \A k \in 1..Len(questions) :
              \E i \in 1..Len(detected_questions) :
                  questions[k].bbox = detected_questions[i].bbox
        /\ ppc = "returned" => manifest[1].questions = questions

\* a saved question whose image is smaller than its bbox in both directions
C29_Witness ==
    /\ ppc = "returned"
    /\ pdf \in TallPdfs
    /\ Len(questions) = 1
    /\ Height(detected_questions[1].image) < questions[1].bbox.height
    /\ detected_questions[1].image.width < questions[1].bbox.width
    /\ manifest[1].questions[1].bbox = detected_questions[1].bbox

RecordFields ==
    {"id", "number", "theme", "image_path", "source_pages", "column", "bbox"}

\* C30: a second run on the same pages with the same configuration and
\* recognition results builds the same records, field by field and in the
\* same order, as the first run wrote, and its manifest differs from the
\* first one in no field other than processed_at.
C30_SameRecordsInBothRuns ==
    /\ run = 2 /\ ppc \in {"loop", "branch", "returned"} =>
          /\ first_manifest # None
          /\ \A k \in 1..Len(questions) :
                /\ k <= Len(first_manifest[1].questions)
                /\ DOMAIN questions[k] = RecordFields
                /\ \A f \in RecordFields :
                      questions[k][f] = first_manifest[1].questions[k][f]
    /\ SecondRunWrote =>
          /\ DOMAIN manifest[1] = DOMAIN first_manifest[1]
          /\ \A f \in DOMAIN manifest[1] \ {"processed_at"} :
                manifest[1][f] = first_manifest[1][f]
          /\ Len(questions) = first_manifest[1].total_questions

\* the second run, made at a later clock reading, discarded a region and
\* wrote a record as the first run had
C30_Witness ==
    /\ SecondRunWrote
    /\ ppc = "returned"
    /\ skipped_count >= 1
    /\ Len(questions) >= 1
    /\ manifest[1].questions = first_manifest[1].questions
    /\ manifest[1].processed_at > first_manifest[1].processed_at

====
